---- MODULE Spec2Model ----
(***************************************************************************)
(* logerian: hierarchical multi-output logger.                             *)
(*                                                                         *)
(* The model follows src/src/logger.ts (class Logger), src/src/level.ts    *)
(* (the level registry) and src/src/pinnedline.ts (class PinnedLine and    *)
(* the util functions that follow it in the same file).                    *)
(*                                                                         *)
(* A string is a sequence of one-character strings; the control            *)
(* characters U+001B, U+009B and U+0007 are written "ESC", "CSI", "BEL".   *)
(***************************************************************************)
EXTENDS Integers, Sequences, FiniteSets, TLC

(***************************************************************************)
(* Bounds of the model.                                                    *)
(***************************************************************************)
\* pinned lines that can be created in one behaviour
MaxLines == 2
\* streams a logger can hold (constructor streams plus added ones)
MaxStreams == 3
\* addStream / removeOutput calls that change a streams array
MaxEdits == 1
\* depth of nested Logger.log calls before the call stack is exhausted
MaxDepth == 4
MaxStringLen == 4
\* writeStream.columns of the terminal
TtyColumns == 4

(***************************************************************************)
(* Strings.                                                                *)
(***************************************************************************)
NL == "\n"
ESC == "ESC"
CSI == "CSI"
BEL == "BEL"

RECURSIVE MapPrepend(_, _)
\* lines.map(line => p + line)
MapPrepend(p, parts) ==
    IF Len(parts) = 0 THEN <<>> ELSE <<p \o Head(parts)>> \o MapPrepend(p, Tail(parts))

RECURSIVE Join(_, _)
\* Array.prototype.join(sep) on an array of strings
Join(parts, sep) ==
    IF Len(parts) = 0 THEN <<>>
    ELSE IF Len(parts) = 1 THEN parts[1]
    ELSE parts[1] \o sep \o Join(Tail(parts), sep)

RECURSIVE Split(_, _)
\* String.prototype.split(c) for a one-character separator
Split(s, c) ==
    IF \A k \in 1..Len(s) : s[k] # c THEN <<s>>
    ELSE LET k == CHOOSE k \in 1..Len(s) :
                      s[k] = c /\ \A j \in 1..(k - 1) : s[j] # c
         IN <<SubSeq(s, 1, k - 1)>> \o Split(SubSeq(s, k + 1, Len(s)), c)

\* the prefix put before the first line only
PrefixFirstLine(p, s) == p \o s

\* s.split('\n').map(line => p + line).join('\n')
PrefixLines(p, s) ==
    Join(MapPrepend(p, Split(s, NL)), <<NL>>)

\* substring(0, n) that cuts nothing
SubstringWhole(s, n) == s

\* String.prototype.substring(0, n) for n >= 0
Substring0(s, n) ==
    SubSeq(s, 1, IF n < Len(s) THEN n ELSE Len(s))

\* util.formatWithOptions({ colors: true }, ...data) for string arguments
\* that hold no % directive: the arguments joined by single spaces
formatWithOptions(data) ==
    Join(data, <<" ">>)

(***************************************************************************)
(* Handles.  A stream handle is another Logger or a raw destination; a raw *)
(* destination is a plain object with write(), an fs.WriteStream or a      *)
(* tty.WriteStream.                                                        *)
(***************************************************************************)
Loggers == {"A", "B", "C"}
PlainDests == {"dA", "dB", "dC", "dX"}
FileDests == {"file"}
TtyDests == {"tty", "tty2", "ttyX"}
\* the destinations whose write() throws an Error
FailingDests == {"dX", "ttyX"}
Dests == PlainDests \cup FileDests \cup TtyDests
Handles == Loggers \cup Dests

\* stream.write(data) throws
WriteThrows(h) == h \in FailingDests
\* stream.stream instanceof Logger
IsLogger(h) == h \in Loggers
\* stream.stream instanceof fs.WriteStream
IsFsWriteStream(h) == h \in FileDests
\* stream.stream instanceof tty.WriteStream
IsTtyWriteStream(h) == h \in TtyDests

\* no logger is given an identifier
IdentifierAbsent(l) == [t |-> "undefined", v |-> <<>>]

\* options.identifier of each logger (A is constructed without one)
Identifier(l) ==
    CASE l = "A" -> [t |-> "undefined", v |-> <<>>]
      [] l = "B" -> [t |-> "string", v |-> <<"[", "B", "]">>]
      [] l = "C" -> [t |-> "string", v |-> <<"[", "C", "]">>]

(***************************************************************************)
(* The level registry (level.ts).                                          *)
(***************************************************************************)
\* the importance of NONE: Number.MAX_VALUE, kept as a number above every
\* importance a level or a threshold of the model has
MAX_VALUE == 2147483647

BuiltinLevels == <<"DEBUG", "INFO", "WARN", "ERROR", "FATAL">>
BuiltinLevelSet == {BuiltinLevels[k] : k \in 1..Len(BuiltinLevels)}

\* identifier.toUpperCase() on the names the model registers
toUpperCase(name) ==
    CASE name = "trace" -> "TRACE"
      [] name = "warn" -> "WARN"
      [] name = "notice" -> "NOTICE"
      [] OTHER -> name

\* the registry after the module's six addLoggerLevel calls
DefaultLoggerLevel ==
    [n \in BuiltinLevelSet \cup {"NONE"} |->
        CASE n = "DEBUG" -> [importance |-> 0, ansiColor |-> 34]
          [] n = "INFO" -> [importance |-> 1, ansiColor |-> 32]
          [] n = "WARN" -> [importance |-> 2, ansiColor |-> 33]
          [] n = "ERROR" -> [importance |-> 3, ansiColor |-> 31]
          [] n = "FATAL" -> [importance |-> 4, ansiColor |-> 31]
          [] n = "NONE" -> [importance |-> MAX_VALUE, ansiColor |-> 34]]

DefaultLevelsByImportance ==
    [i \in {DefaultLoggerLevel[n].importance : n \in DOMAIN DefaultLoggerLevel} |->
        CHOOSE n \in DOMAIN DefaultLoggerLevel : DefaultLoggerLevel[n].importance = i]

\* JavaScript values passed to addLoggerLevel: t is the result of typeof
JsString(v) == [t |-> "string", v |-> v, n |-> 0]
JsNumber(n) == [t |-> "number", v |-> "", n |-> n]
JsUndefined == [t |-> "undefined", v |-> "", n |-> 0]
\* Map.prototype.has(key)
MapHas(map, key) == key \in DOMAIN map

\* addLoggerLevel with the identifier compared as it was given
addLoggerLevelCaseSensitive(identifier, data, registry, index) ==
    IF identifier.t # "string" THEN [LoggerLevel |-> registry, levelsByImportance |-> index, exc |-> "TypeError"]
    ELSE IF data.importance.t # "number" THEN [LoggerLevel |-> registry, levelsByImportance |-> index, exc |-> "TypeError"]
    ELSE IF data.formatting.t \notin {"undefined", "object"} THEN [LoggerLevel |-> registry, levelsByImportance |-> index, exc |-> "TypeError"]
    ELSE IF data.formatting.t # "undefined" /\ data.formatting.ansiColor.t # "number"
    THEN [LoggerLevel |-> registry, levelsByImportance |-> index, exc |-> "TypeError"]
    ELSE IF identifier.v \in DOMAIN registry
    THEN [LoggerLevel |-> registry, levelsByImportance |-> index, exc |-> "Error: exists"]
    ELSE IF MapHas(index, data.importance.n)
    THEN [LoggerLevel |-> registry, levelsByImportance |-> index, exc |-> "Error: importance"]
    ELSE [LoggerLevel |->
              [x \in DOMAIN registry \cup {identifier.v} |->
                  IF x = identifier.v
                  THEN [importance |-> data.importance.n,
                        ansiColor |-> IF data.formatting.t = "undefined" THEN 34
                                      ELSE data.formatting.ansiColor.n]
                  ELSE registry[x]],
          levelsByImportance |->
              [x \in DOMAIN index \cup {data.importance.n} |->
                  IF x = data.importance.n THEN identifier.v ELSE index[x]],
          exc |-> "none"]

\* addLoggerLevel without the test of the name: an existing level is replaced
addLoggerLevelOverwrites(identifier, data, registry, index) ==
    IF identifier.t # "string" \/ data.importance.t # "number"
       \/ data.formatting.t \notin {"undefined", "object"}
       \/ (data.formatting.t # "undefined" /\ data.formatting.ansiColor.t # "number")
    THEN [LoggerLevel |-> registry, levelsByImportance |-> index, exc |-> "TypeError"]
    ELSE IF MapHas(index, data.importance.n)
    THEN [LoggerLevel |-> registry, levelsByImportance |-> index, exc |-> "Error: importance"]
    ELSE [LoggerLevel |->
              [x \in DOMAIN registry \cup {toUpperCase(identifier.v)} |->
                  IF x = toUpperCase(identifier.v)
                  THEN [importance |-> data.importance.n,
                        ansiColor |-> IF data.formatting.t = "undefined" THEN 34
                                      ELSE data.formatting.ansiColor.n]
                  ELSE registry[x]],
          levelsByImportance |->
              [x \in DOMAIN index \cup {data.importance.n} |->
                  IF x = data.importance.n THEN toUpperCase(identifier.v) ELSE index[x]],
          exc |-> "none"]

\* addLoggerLevel without the test levelsByImportance.has(data.importance)
addLoggerLevelSharedImportance(identifier, data, registry, index) ==
    IF identifier.t # "string" \/ data.importance.t # "number"
       \/ data.formatting.t \notin {"undefined", "object"}
       \/ (data.formatting.t # "undefined" /\ data.formatting.ansiColor.t # "number")
    THEN [LoggerLevel |-> registry, levelsByImportance |-> index, exc |-> "TypeError"]
    ELSE IF toUpperCase(identifier.v) \in DOMAIN registry
    THEN [LoggerLevel |-> registry, levelsByImportance |-> index, exc |-> "Error: exists"]
    ELSE [LoggerLevel |->
              [x \in DOMAIN registry \cup {toUpperCase(identifier.v)} |->
                  IF x = toUpperCase(identifier.v)
                  THEN [importance |-> data.importance.n,
                        ansiColor |-> IF data.formatting.t = "undefined" THEN 34
                                      ELSE data.formatting.ansiColor.n]
                  ELSE registry[x]],
          levelsByImportance |->
              [x \in DOMAIN index \cup {data.importance.n} |->
                  IF x = data.importance.n THEN toUpperCase(identifier.v) ELSE index[x]],
          exc |-> "none"]

\* addLoggerLevel(identifier, data) on the registry (LoggerLevel) and its
\* index (levelsByImportance): the two after the call and the exception
\* thrown ("none" when it returned)
addLoggerLevel(identifier, data, registry, index) ==
    LET Same(exc) == [LoggerLevel |-> registry, levelsByImportance |-> index, exc |-> exc]
        Register(name) ==
            IF name \in DOMAIN registry THEN Same("Error: exists")
            ELSE IF MapHas(index, data.importance.n) THEN Same("Error: importance")
            ELSE [LoggerLevel |->
                      [x \in DOMAIN registry \cup {name} |->
                          IF x = name
                          THEN [importance |-> data.importance.n,
                                ansiColor |-> IF data.formatting.t = "undefined" THEN 34
                                              ELSE data.formatting.ansiColor.n]
                          ELSE registry[x]],
                  levelsByImportance |->
                      [x \in DOMAIN index \cup {data.importance.n} |->
                          IF x = data.importance.n THEN name ELSE index[x]],
                  exc |-> "none"]
    IN IF identifier.t # "string" THEN Same("TypeError")
       ELSE IF data.importance.t # "number" THEN Same("TypeError")
       ELSE IF data.formatting.t \notin {"undefined", "object"} THEN Same("TypeError")
       ELSE IF data.formatting.t # "undefined" /\ data.formatting.ansiColor.t # "number"
       THEN Same("TypeError")
       ELSE Register(toUpperCase(identifier.v))

\* enum LoggerLevel of index.ts
LoggerLevelEnum == [DEBUG |-> 0, INFO |-> 1, WARN |-> 2, ERROR |-> 3, FATAL |-> 4]

\* getLoggerLevelName with the WARN line lost
getLoggerLevelNameNoWarn(level) ==
    IF level = LoggerLevelEnum.DEBUG \/ level < 0 THEN "DEBUG"
    ELSE IF level = LoggerLevelEnum.INFO THEN "INFO"
    ELSE IF level = LoggerLevelEnum.ERROR THEN "ERROR"
    ELSE IF level = LoggerLevelEnum.FATAL \/ level > 4 THEN "FATAL"
    ELSE "INFO"

\* getLoggerLevelName(level) of the numeric LoggerLevel enum (index.ts)
getLoggerLevelName(level) ==
    IF level = LoggerLevelEnum.DEBUG \/ level < 0 THEN "DEBUG"
    ELSE IF level = LoggerLevelEnum.INFO THEN "INFO"
    ELSE IF level = LoggerLevelEnum.WARN THEN "WARN"
    ELSE IF level = LoggerLevelEnum.ERROR THEN "ERROR"
    ELSE IF level = LoggerLevelEnum.FATAL \/ level > 4 THEN "FATAL"
    ELSE "INFO"

(***************************************************************************)
(* LoggerStream options and the hooks a caller can configure.              *)
(***************************************************************************)
Undefined == "undefined"

LvUndefined == [t |-> "undefined", v |-> "", n |-> 0]
LvName(name) == [t |-> "string", v |-> name, n |-> 0]
LvNumber(k) == [t |-> "number", v |-> "", n |-> k]
LvFunction(f) == [t |-> "function", v |-> f, n |-> 0]
\* the closure (importance) => importance >= level built by the constructor
LvAtLeast(k) == [t |-> "function", v |-> "atLeast", n |-> k]

\* stream.level(importance): the result of the call, or "TypeError" when the
\* field holds no function
CallLevel(lv, importance) ==
    IF lv.t # "function" THEN "TypeError"
    ELSE CASE lv.v = "atLeast" -> IF importance >= lv.n THEN "true" ELSE "false"
           [] lv.v = "infoToWarn" ->
                IF importance >= 1 /\ importance <= 2 THEN "true" ELSE "false"
           [] OTHER -> "true"

\* the data array and the string a replacing interceptor returns
ReplacementData == << <<"X">> >>
ReplacementString == <<"Y">>

\* What an interceptor configured by the caller returns for a call at `level`:
\* "undefined", "null", "replace" (an array / a string) or "invalid" (a number).
HookResult(hook, level) ==
    CASE hook = "pass" -> "undefined"
      [] hook = "replace" -> "replace"
      [] hook = "suppress" -> "null"
      [] hook = "invalid" -> "invalid"
      [] hook = "suppressWarn" -> IF level = "WARN" THEN "null" ELSE "undefined"
      [] hook = "invalidWarn" -> IF level = "WARN" THEN "invalid" ELSE "undefined"
      [] hook = "replaceInfo" -> IF level = "INFO" THEN "replace" ELSE "undefined"

\* a LoggerStream object; id is the identity of the object
Opt(id, stream, level, prefix, allowPinnedLines, interceptData, interceptString) ==
    [id |-> id, determined |-> FALSE, stream |-> stream, level |-> level,
     prefix |-> prefix, allowPinnedLines |-> allowPinnedLines,
     interceptData |-> interceptData, interceptString |-> interceptString]

(***************************************************************************)
(* The state of the program.                                               *)
(***************************************************************************)
VARIABLES
    \* level.ts: the exported registry and its importance index
    LoggerLevel, levelsByImportance,
    \* Logger.streams, Logger.pinnedLines and Logger.previousLineSize of
    \* each logger; a Set is kept as the sequence of its insertion order
    streams, pinnedLines, previousLineSize,
    \* the PinnedLine objects created so far: parent, level, content
    lines,
    \* the LoggerStream objects each logger was constructed with, and the
    \* number of addStream / removeOutput calls that changed a streams array
    options, edits,
    \* the last call made on the public interface, what it did to the
    \* outside world (hook invocations, nested log calls, terminal and
    \* destination operations, in order) and how it completed
    op, out, ret

vars == <<LoggerLevel, levelsByImportance, streams, pinnedLines,
          previousLineSize, lines, options, edits, op, out, ret>>

\* the wall-clock times (hours, minutes, seconds) a call can be made at
Dates == {<<5, 9, 2>>}

\* one observable step of a call: k is the operation ("log", a hook, "write",
\* "moveCursor", "cursorTo", "clearLine"), lg the logger, i the index of its
\* stream, dst the handle, d/s the data or string passed, n a number (the rows
\* moved; for the write of a pinned row, the line)
Ev(k, lg, i, dst, lvl, d, s, n) ==
    [k |-> k, lg |-> lg, i |-> i, dst |-> dst, lvl |-> lvl, d |-> d, s |-> s, n |-> n]

\* the outcome of a routine: its steps, the mutable state after it (st: the
\* previousLineSize maps, the pinned sets and the PinnedLine objects) and the
\* exception it threw ("none" when it returned)
Res(ev, st, exc) == [ev |-> ev, st |-> st, exc |-> exc]

\* Map.get(key) ?? 0
GetOrZero(map, key) == IF key \in DOMAIN map THEN map[key] ELSE 0
\* Map.set(key, value)
MapSet(map, key, value) ==
    [x \in DOMAIN map \cup {key} |-> IF x = key THEN value ELSE map[x]]

(***************************************************************************)
(* util: coloredLog and stripANSIFormatting.                               *)
(***************************************************************************)
Digit(n) == CASE n = 0 -> "0" [] n = 1 -> "1" [] n = 2 -> "2" [] n = 3 -> "3"
              [] n = 4 -> "4" [] n = 5 -> "5" [] n = 6 -> "6" [] n = 7 -> "7"
              [] n = 8 -> "8" [] n = 9 -> "9"

RECURSIVE Repeat(_, _)
\* n copies of the character c
Repeat(c, n) == IF n <= 0 THEN <<>> ELSE <<c>> \o Repeat(c, n - 1)

RECURSIVE NumberToString(_)
\* Number.prototype.toString() of a non-negative integer
NumberToString(n) ==
    IF n < 10 THEN <<Digit(n)>> ELSE NumberToString(n \div 10) \o <<Digit(n % 10)>>

\* String.prototype.padStart(width, '0')
PadStart0(s, width) == Repeat("0", width - Len(s)) \o s

\* String.prototype.padEnd(width, ' ')
PadEndSpace(s, width) == s \o Repeat(" ", width - Len(s))

\* the characters of a level name
NameChars(name) ==
    CASE name = "DEBUG" -> <<"D", "E", "B", "U", "G">>
      [] name = "INFO" -> <<"I", "N", "F", "O">>
      [] name = "WARN" -> <<"W", "A", "R", "N">>
      [] name = "ERROR" -> <<"E", "R", "R", "O", "R">>
      [] name = "FATAL" -> <<"F", "A", "T", "A", "L">>
      [] name = "NONE" -> <<"N", "O", "N", "E">>
      [] name = "TRACE" -> <<"T", "R", "A", "C", "E">>
      [] name = "NOTICE" -> <<"N", "O", "T", "I", "C", "E">>

\* coloredLog without the padEnd of the level tag
coloredLogUnpadded(levelName, date) ==
    LET level == LoggerLevel[levelName]
    IN <<ESC, "[", "9", "0", "m", "[">>
       \o PadStart0(NumberToString(date[1]), 2) \o <<":">>
       \o PadStart0(NumberToString(date[2]), 2) \o <<":">>
       \o PadStart0(NumberToString(date[3]), 2)
       \o <<"]", ESC, "[", "3", "9", "m", " ", ESC, "[">>
       \o NumberToString(level.ansiColor) \o <<"m">>
       \o <<"[">> \o NameChars(levelName) \o <<"]">>
       \o <<ESC, "[", "3", "9", "m", " ">>

\* coloredLog(levelName) called when the clock reads date (hours, minutes,
\* seconds), for a level name that is a key of LoggerLevel
coloredLog(levelName, date) ==
    LET level == LoggerLevel[levelName]
    IN <<ESC, "[", "9", "0", "m", "[">>
       \o PadStart0(NumberToString(date[1]), 2) \o <<":">>
       \o PadStart0(NumberToString(date[2]), 2) \o <<":">>
       \o PadStart0(NumberToString(date[3]), 2)
       \o <<"]", ESC, "[", "3", "9", "m", " ", ESC, "[">>
       \o NumberToString(level.ansiColor) \o <<"m">>
       \o PadEndSpace(<<"[">> \o NameChars(levelName) \o <<"]">>, 7)
       \o <<ESC, "[", "3", "9", "m", " ">>

\* the character classes of the regular expression in stripANSIFormatting
IsDigit(c) == c \in {"0", "1", "2", "3", "4", "5", "6", "7", "8", "9"}
IsLetter(c) ==
    c \in {"a", "b", "c", "d", "e", "f", "g", "h", "i", "j", "k", "l", "m",
           "n", "o", "p", "q", "r", "s", "t", "u", "v", "w", "x", "y", "z",
           "A", "B", "C", "D", "E", "F", "G", "H", "I", "J", "K", "L", "M",
           "N", "O", "P", "Q", "R", "S", "T", "U", "V", "W", "X", "Y", "Z"}
\* [\u001B\u009B]
IsIntroducer(c) == c \in {ESC, CSI}
\* [[\]()#;?]
IsOpener(c) == c \in {"[", "]", "(", ")", "#", ";", "?"}
\* [a-zA-Z\d]
IsAlnum(c) == IsLetter(c) \/ IsDigit(c)
\* [-a-zA-Z\d/#&.:=?%@~_]
IsParamChar(c) ==
    IsAlnum(c) \/ c \in {"-", "/", "#", "&", ".", ":", "=", "?", "%", "@", "~", "_"}
\* [\dA-PR-TZcf-ntqry=><~]
IsFinal(c) ==
    \/ IsDigit(c)
    \/ c \in {"A", "B", "C", "D", "E", "F", "G", "H", "I", "J", "K", "L", "M",
              "N", "O", "P", "R", "S", "T", "Z"}
    \/ c \in {"c", "f", "g", "h", "i", "j", "k", "l", "m", "n", "t", "q", "r", "y"}
    \/ c \in {"=", ">", "<", "~"}

\* how many characters from position k on satisfy the class, at most max
RunOpeners(s, k) ==
    CHOOSE n \in 0..(Len(s) + 1 - k) :
        /\ \A j \in k..(k + n - 1) : IsOpener(s[j])
        /\ (k + n <= Len(s) => ~IsOpener(s[k + n]))
RunDigits(s, k, max) ==
    CHOOSE n \in 0..max :
        /\ k + n - 1 <= Len(s)
        /\ \A j \in k..(k + n - 1) : IsDigit(s[j])
        /\ (n < max /\ k + n <= Len(s) => ~IsDigit(s[k + n]))

\* the first non-zero entry of a sequence of positions, 0 when there is none:
\* the alternative a backtracking matcher settles on
FirstMatch(tries) ==
    IF \A k \in 1..Len(tries) : tries[k] = 0 THEN 0
    ELSE tries[CHOOSE k \in 1..Len(tries) :
                   tries[k] # 0 /\ \A j \in 1..(k - 1) : tries[j] = 0]

\* (?:(?:[a-zA-Z\d]*(?:;[-a-zA-Z\d/#&.:=?%@~_]*)*)?\u0007) from position k:
\* the position after the match, 0 when it does not match.  No class holds
\* BEL, so the match ends at the first BEL.
MatchOsc(s, k) ==
    IF \A e \in k..Len(s) : s[e] # BEL THEN 0
    ELSE LET e == CHOOSE e \in k..Len(s) :
                      s[e] = BEL /\ \A j \in k..(e - 1) : s[j] # BEL
             body == SubSeq(s, k, e - 1)
             ok == \/ \A j \in 1..Len(body) : IsAlnum(body[j])
                   \/ \E f \in 1..Len(body) :
                         /\ body[f] = ";"
                         /\ \A j \in 1..(f - 1) : IsAlnum(body[j])
                         /\ \A j \in (f + 1)..Len(body) :
                                IsParamChar(body[j]) \/ body[j] = ";"
         IN IF ok THEN e + 1 ELSE 0

RECURSIVE MatchParams(_, _)
\* (?:;\d{0,4})* followed by the final character, from position k (greedy,
\* longest repetition first)
MatchParams(s, k) ==
    LET more == IF k <= Len(s) /\ s[k] = ";"
                THEN LET dmax == RunDigits(s, k + 1, 4)
                     IN FirstMatch([t \in 1..(dmax + 1) |->
                                       MatchParams(s, k + 1 + (dmax + 1 - t))])
                ELSE 0
    IN IF more # 0 THEN more
       ELSE IF k <= Len(s) /\ IsFinal(s[k]) THEN k + 1 ELSE 0

\* (?:(?:\d{1,4}(?:;\d{0,4})*)?[\dA-PR-TZcf-ntqry=><~]) from position k
MatchCsi(s, k) ==
    LET dmax == RunDigits(s, k, 4)
        withGroup == FirstMatch([t \in 1..dmax |-> MatchParams(s, k + (dmax + 1 - t))])
    IN IF withGroup # 0 THEN withGroup
       ELSE IF k <= Len(s) /\ IsFinal(s[k]) THEN k + 1 ELSE 0

\* the whole expression at position i: the position after the match, or 0
MatchAnsi(s, i) ==
    IF ~IsIntroducer(s[i]) THEN 0
    ELSE LET pmax == RunOpeners(s, i + 1)
         IN FirstMatch([t \in 1..(2 * (pmax + 1)) |->
                LET p == pmax - ((t - 1) \div 2)
                IN IF t % 2 = 1 THEN MatchOsc(s, i + 1 + p)
                   ELSE MatchCsi(s, i + 1 + p)])

RECURSIVE StripFrom(_, _)
\* the scan of replace() from position i: the text up to the next match is
\* kept, the match is dropped, the scan goes on after it
StripFrom(s, i) ==
    LET starts == {j \in i..Len(s) : MatchAnsi(s, j) # 0}
    IN IF starts = {} THEN SubSeq(s, i, Len(s))
       ELSE LET j == CHOOSE j \in starts : \A x \in starts : j <= x
            IN SubSeq(s, i, j - 1) \o StripFrom(s, MatchAnsi(s, j))

\* string.replace(/.../g, '')
stripANSIFormatting(string) == StripFrom(string, 1)

(***************************************************************************)
(* Logger: the constructor's normalisation of a LoggerStream.              *)
(***************************************************************************)
\* the prefix function a stream is configured with, applied to a level
CallPrefix(prefix, level, date) ==
    CASE prefix = "coloredLog" -> coloredLog(level, date)
      [] prefix = "empty" -> <<>>
      [] prefix = "tag" -> <<">", " ">>

\* the object the constructor's map() builds from a LoggerStream
Determine(stream) ==
    LET level0 == IF stream.level.t = "undefined" THEN LvName("DEBUG") ELSE stream.level
        level1 == IF level0.t = "string"
                  THEN LvNumber(LoggerLevel[level0.v].importance)
                  ELSE level0
        levelFunc == IF level1.t = "number" THEN LvAtLeast(level1.n) ELSE level1
    IN [id |-> stream.id,
        determined |-> TRUE,
        stream |-> stream.stream,
        level |-> levelFunc,
        prefix |-> IF stream.prefix = Undefined THEN "coloredLog" ELSE stream.prefix,
        allowPinnedLines |-> IF stream.allowPinnedLines = Undefined THEN "true"
                             ELSE stream.allowPinnedLines,
        interceptData |-> stream.interceptData,
        interceptString |-> stream.interceptString]

\* new Logger({ streams }): the streams field
RECURSIVE Constructor(_)
Constructor(streamOptions) ==
    IF Len(streamOptions) = 0 THEN <<>>
    ELSE <<Determine(Head(streamOptions))>> \o Constructor(Tail(streamOptions))

(***************************************************************************)
(* Logger.log and the routines under it.  lg is the logger, i the index of *)
(* the stream in lg's list, st the mutable state: st.prev the              *)
(* previousLineSize maps, st.pinned the pinned sets, st.lines the lines.   *)
(***************************************************************************)
\* PinnedLine.getContent(): this.content ?? ''
getContent(st, line) ==
    IF st.lines[line].hasContent THEN st.lines[line].content ELSE <<>>
\* PinnedLine.getLevel()
getLevel(st, line) == st.lines[line].level
\* Logger.isPinnedLineBound(line): this.pinnedLines.has(line)
isPinnedLineBound(st, lg, line) ==
    \E k \in 1..Len(st.pinned[lg]) : st.pinned[lg][k] = line

\* InterceptDataStep with the null branch lost: a null result is treated like
\* undefined
InterceptDataStepNullPasses(lg, i, stream, level, data) ==
    IF CallLevel(stream.level, LoggerLevel[level].importance) = "true"
       /\ stream.interceptData # Undefined
    THEN LET interceptModified == HookResult(stream.interceptData, level)
             ev == <<Ev("interceptData", lg, i, stream.stream, level, data, <<>>, 0)>>
         IN CASE interceptModified = "replace" ->
                   [ev |-> ev, next |-> "logData", data |-> ReplacementData]
              [] interceptModified \in {"null", "undefined"} ->
                   [ev |-> ev, next |-> "logData", data |-> data]
              [] OTHER ->
                   [ev |-> ev, next |-> "throw", data |-> data]
    ELSE [ev |-> <<>>, next |-> "logData", data |-> data]

\* the interceptData block of Logger.log for one stream: what the loop does
\* next ("logData", "continue" or "throw") and the data it goes on with
InterceptDataStep(lg, i, stream, level, data) ==
    IF CallLevel(stream.level, LoggerLevel[level].importance) = "true"
       /\ stream.interceptData # Undefined
    THEN LET interceptModified == HookResult(stream.interceptData, level)
             ev == <<Ev("interceptData", lg, i, stream.stream, level, data, <<>>, 0)>>
         IN CASE interceptModified = "replace" ->
                   [ev |-> ev, next |-> "logData", data |-> ReplacementData]
              [] interceptModified = "null" ->
                   [ev |-> ev, next |-> "continue", data |-> data]
              [] interceptModified = "undefined" ->
                   [ev |-> ev, next |-> "logData", data |-> data]
              [] OTHER ->
                   [ev |-> ev, next |-> "throw", data |-> data]
    ELSE [ev |-> <<>>, next |-> "logData", data |-> data]

\* Logger.dataToMessage: the message, or null (isNull), or a TypeError
dataToMessage(lg, i, stream, level, data, date) ==
    LET intercepts == stream.interceptString # Undefined
        ev1(message) ==
            IF intercepts
            THEN <<Ev("interceptString", lg, i, stream.stream, level, <<>>, message, 0)>>
            ELSE <<>>
        prefixes == ~IsLogger(stream.stream) /\ stream.prefix # Undefined
        ev2 == IF prefixes
               THEN <<Ev("prefix", lg, i, stream.stream, level, <<>>, <<>>, 0)>>
               ELSE <<>>
        Prefixed(message) ==
            IF IsLogger(stream.stream)
            THEN IF Identifier(lg).t = "string"
                 THEN PrefixLines(Identifier(lg).v \o <<" ">>, message)
                 ELSE message
            ELSE IF prefixes
                 THEN PrefixLines(CallPrefix(stream.prefix, level, date), message)
                 ELSE message
        Stripped(message) ==
            IF ~IsLogger(stream.stream) /\ IsFsWriteStream(stream.stream)
            THEN stripANSIFormatting(message)
            ELSE message
        Intercepted(message, interceptModified) ==
            IF interceptModified = "null"
            THEN [ev |-> ev1(message), msg |-> <<>>, isNull |-> TRUE, exc |-> "none"]
            ELSE IF interceptModified = "invalid"
            THEN [ev |-> ev1(message), msg |-> <<>>, isNull |-> FALSE, exc |-> "TypeError"]
            ELSE [ev |-> ev1(message) \o ev2,
                  msg |-> Stripped(Prefixed(IF interceptModified = "replace"
                                            THEN ReplacementString
                                            ELSE message)),
                  isNull |-> FALSE, exc |-> "none"]
    IN Intercepted(formatWithOptions(data),
                   IF intercepts THEN HookResult(stream.interceptString, level)
                   ELSE "undefined")

RECURSIVE PinnedRows(_, _, _, _, _, _)
\* the forEach of writePinnedLines over the pinned lines from position k on;
\* an exception ends it (rejected is TRUE)
PinnedRows(lg, i, stream, k, st, date) ==
    IF k > Len(st.pinned[lg]) THEN [ev |-> <<>>, rejected |-> FALSE]
    ELSE LET line == st.pinned[lg][k]
             level == getLevel(st, line)
             dst == stream.stream
             Row(m, rest) ==
                 IF m.exc # "none" THEN [ev |-> m.ev, rejected |-> TRUE]
                 ELSE IF m.isNull
                 THEN [ev |-> m.ev \o rest.ev, rejected |-> rest.rejected]
                 ELSE IF WriteThrows(dst)
                 THEN [ev |-> m.ev
                              \o <<Ev("cursorTo", lg, i, dst, level, <<>>, <<>>, 0),
                                   Ev("clearLine", lg, i, dst, level, <<>>, <<>>, 0),
                                   Ev("write", lg, i, dst, level, <<>>,
                                      Substring0(Split(m.msg, NL)[1], TtyColumns), line)>>,
                       rejected |-> TRUE]
                 ELSE [ev |-> m.ev
                              \o <<Ev("cursorTo", lg, i, dst, level, <<>>, <<>>, 0),
                                   Ev("clearLine", lg, i, dst, level, <<>>, <<>>, 0),
                                   Ev("write", lg, i, dst, level, <<>>,
                                      Substring0(Split(m.msg, NL)[1], TtyColumns), line),
                                   Ev("write", lg, i, dst, level, <<>>, <<NL>>, line)>>
                              \o rest.ev,
                       rejected |-> rest.rejected]
             Admit(admits) ==
                 IF admits = "TypeError" THEN [ev |-> <<>>, rejected |-> TRUE]
                 ELSE IF admits = "false" THEN PinnedRows(lg, i, stream, k + 1, st, date)
                 ELSE Row(dataToMessage(lg, i, stream, level, <<getContent(st, line)>>, date),
                          PinnedRows(lg, i, stream, k + 1, st, date))
         IN Admit(IF level \in DOMAIN LoggerLevel
                  THEN CallLevel(stream.level, LoggerLevel[level].importance)
                  ELSE "TypeError")

\* Logger.writePinnedLines(stream, contentAbove?).  The method is async and
\* awaits nothing: its body runs within the call, and an exception in it
\* rejects the returned promise, which no caller awaits.
writePinnedLines(lg, i, stream, hasContentAbove, contentAbove, st, date) ==
    LET writeStream == stream.stream
        head == <<Ev("moveCursor", lg, i, writeStream, "", <<>>, <<>>,
                     0 - GetOrZero(st.prev[lg], writeStream)),
                  Ev("cursorTo", lg, i, writeStream, "", <<>>, <<>>, 0),
                  Ev("clearLine", lg, i, writeStream, "", <<>>, <<>>, 0)>>
        st1 == [st EXCEPT !.prev[lg] = MapSet(st.prev[lg], writeStream, Len(st.pinned[lg]))]
        above == IF hasContentAbove /\ contentAbove # <<>>
                 THEN <<Ev("write", lg, i, writeStream, "", <<>>, contentAbove, 0)>>
                 ELSE <<>>
        Settled(rows) ==
            Res(head \o above \o rows.ev
                \o IF rows.rejected
                   THEN <<Ev("unhandledRejection", lg, i, writeStream, "", <<>>, <<>>, 0)>>
                   ELSE <<>>,
                st1, "none")
    IN IF above # <<>> /\ WriteThrows(writeStream)
       THEN Res(head \o above
                \o <<Ev("unhandledRejection", lg, i, writeStream, "", <<>>, <<>>, 0)>>,
                st1, "none")
       ELSE Settled(PinnedRows(lg, i, stream, 1, st, date))

RECURSIVE log(_, _, _, _, _, _)
RECURSIVE LogLoop(_, _, _, _, _, _, _)
RECURSIVE logData(_, _, _, _, _, _, _, _)
RECURSIVE writeToStream(_, _, _, _, _, _, _, _)

\* Logger.writeToStream(stream, level, data)
writeToStream(lg, i, stream, level, data, st, date, fuel) ==
    IF IsLogger(stream.stream)
    THEN log(stream.stream, level, <<data>>, st, date, fuel - 1)
    ELSE IF ~(IsTtyWriteStream(stream.stream) /\ stream.allowPinnedLines = "true")
    THEN Res(<<Ev("write", lg, i, stream.stream, level, <<>>, data, 0)>>, st,
             IF WriteThrows(stream.stream) THEN "Error" ELSE "none")
    ELSE writePinnedLines(lg, i, stream, TRUE, data, st, date)

\* Logger.logData(stream, level, data)
logData(lg, i, stream, level, data, st, date, fuel) ==
    LET Written(m, r) == Res(m.ev \o r.ev, r.st, r.exc)
        Message(m) ==
            IF m.exc # "none" THEN Res(m.ev, st, m.exc)
            ELSE IF m.isNull THEN Res(m.ev, st, "none")
            ELSE Written(m, IF IsLogger(stream.stream)
                            THEN log(stream.stream, level, <<m.msg>>, st, date, fuel - 1)
                            ELSE writeToStream(lg, i, stream, level, m.msg \o <<NL>>,
                                               st, date, fuel))
    IN Message(dataToMessage(lg, i, stream, level, data, date))

\* the loop of Logger.log with the later streams handled before stream i
LogLoopLaterFirst(lg, level, i, data, st, date, fuel) ==
    IF i > Len(streams[lg]) THEN Res(<<>>, st, "none")
    ELSE LET Own(rest, r) == Res(rest.ev \o r.ev, r.st, r.exc)
             Later(rest) ==
                 IF rest.exc # "none" THEN rest
                 ELSE Own(rest, logData(lg, i, streams[lg][i], level, data, rest.st,
                                        date, fuel))
         IN Later(LogLoop(lg, level, i + 1, data, st, date, fuel))

\* the for loop of Logger.log from stream i on
LogLoop(lg, level, i, data, st, date, fuel) ==
    IF i > Len(streams[lg]) THEN Res(<<>>, st, "none")
    ELSE LET stream == streams[lg][i]
             Then(ev, rest) == Res(ev \o rest.ev, rest.st, rest.exc)
             Logged(step, r) ==
                 IF r.exc # "none" THEN Res(step.ev \o r.ev, r.st, r.exc)
                 ELSE Then(step.ev \o r.ev,
                           LogLoop(lg, level, i + 1, step.data, r.st, date, fuel))
             Intercepted(step) ==
                 IF step.next = "throw" THEN Res(step.ev, st, "TypeError")
                 ELSE IF step.next = "continue"
                 THEN Then(step.ev, LogLoop(lg, level, i + 1, step.data, st, date, fuel))
                 ELSE Logged(step, logData(lg, i, stream, level, step.data, st, date, fuel))
         IN IF level \notin DOMAIN LoggerLevel THEN Res(<<>>, st, "TypeError")
            ELSE IF CallLevel(stream.level, LoggerLevel[level].importance) = "TypeError"
            THEN Res(<<>>, st, "TypeError")
            ELSE Intercepted(InterceptDataStep(lg, i, stream, level, data))

\* log that returns without a word where the stack ends
logStopsQuietly(lg, level, data, st, date, fuel) ==
    LET Called(r) ==
            Res(<<Ev("log", lg, 0, lg, level, data, <<>>, 0)>> \o r.ev, r.st, r.exc)
    IN IF fuel <= 1 THEN Res(<<>>, st, "none")
       ELSE Called(LogLoop(lg, level, 1, data, st, date, fuel))

\* Logger.log(level, ...data); a call deeper than the stack allows throws
log(lg, level, data, st, date, fuel) ==
    LET Called(r) ==
            Res(<<Ev("log", lg, 0, lg, level, data, <<>>, 0)>> \o r.ev, r.st, r.exc)
    IN IF fuel = 0 THEN Res(<<>>, st, "RangeError")
       ELSE Called(LogLoop(lg, level, 1, data, st, date, fuel))

RECURSIVE UpdateLoop(_, _, _, _)
\* the loop of updatePinnedLines without the allowPinnedLines test
UpdateLoopAnyTerminal(lg, i, st, date) ==
    IF i > Len(streams[lg]) THEN Res(<<>>, st, "none")
    ELSE LET stream == streams[lg][i]
             Then(ev, rest) == Res(ev \o rest.ev, rest.st, rest.exc)
             Redrawn(r) == Then(r.ev, UpdateLoop(lg, i + 1, r.st, date))
         IN IF IsTtyWriteStream(stream.stream)
            THEN Redrawn(writePinnedLines(lg, i, stream, FALSE, <<>>, st, date))
            ELSE UpdateLoop(lg, i + 1, st, date)

\* the for loop of Logger.updatePinnedLines from stream i on
UpdateLoop(lg, i, st, date) ==
    IF i > Len(streams[lg]) THEN Res(<<>>, st, "none")
    ELSE LET stream == streams[lg][i]
             Then(ev, rest) == Res(ev \o rest.ev, rest.st, rest.exc)
             Redrawn(r) == Then(r.ev, UpdateLoop(lg, i + 1, r.st, date))
         IN IF stream.allowPinnedLines # "true" THEN UpdateLoop(lg, i + 1, st, date)
            ELSE IF IsTtyWriteStream(stream.stream)
            THEN Redrawn(writePinnedLines(lg, i, stream, FALSE, <<>>, st, date))
            ELSE UpdateLoop(lg, i + 1, st, date)

\* updatePinnedLines that goes on to redraw the terminals of the loggers lg
\* forwards to
updatePinnedLinesNested(lg, st, date) ==
    LET Then(r, rest) == Res(r.ev \o rest.ev, rest.st, rest.exc)
        Nested(r) ==
            IF \E k \in 1..Len(streams[lg]) : IsLogger(streams[lg][k].stream)
            THEN Then(r, UpdateLoop(
                     streams[lg][CHOOSE k \in 1..Len(streams[lg]) :
                                     IsLogger(streams[lg][k].stream)].stream,
                     1, r.st, date))
            ELSE r
    IN Nested(UpdateLoop(lg, 1, st, date))

\* Logger.updatePinnedLines()
updatePinnedLines(lg, st, date) == UpdateLoop(lg, 1, st, date)

\* setContent without the isPinnedLineBound test
setContentUnchecked(line, message, st, date) ==
    updatePinnedLines(st.lines[line].parent,
        [st EXCEPT !.lines[line].hasContent = TRUE,
                   !.lines[line].content = message],
        date)

\* PinnedLine.setContent(message)
setContent(line, message, st, date) ==
    IF ~isPinnedLineBound(st, st.lines[line].parent, line) THEN Res(<<>>, st, "none")
    ELSE updatePinnedLines(st.lines[line].parent,
             [st EXCEPT !.lines[line].hasContent = TRUE,
                        !.lines[line].content = message],
             date)

\* createPinnedLine that calls updatePinnedLines after setContent too
createPinnedLineTwice(lg, level, hasInitialMessage, initialMessage, st, date) ==
    LET line == Len(st.lines) + 1
        st1 == [st EXCEPT
                   !.lines = Append(@, [parent |-> lg, level |-> level,
                                        hasContent |-> FALSE, content |-> <<>>]),
                   !.pinned[lg] = Append(@, line)]
        Again(r) ==
            LET Both(u) == Res(r.ev \o u.ev, u.st, u.exc)
            IN Both(updatePinnedLines(lg, r.st, date))
    IN IF hasInitialMessage THEN Again(setContent(line, initialMessage, st1, date))
       ELSE updatePinnedLines(lg, st1, date)

\* Logger.createPinnedLine(level, initialMessage?); the new line is the
\* last element of lines
createPinnedLine(lg, level, hasInitialMessage, initialMessage, st, date) ==
    LET line == Len(st.lines) + 1
        st1 == [st EXCEPT
                   !.lines = Append(@, [parent |-> lg, level |-> level,
                                        hasContent |-> FALSE, content |-> <<>>]),
                   !.pinned[lg] = Append(@, line)]
    IN IF hasInitialMessage THEN setContent(line, initialMessage, st1, date)
       ELSE updatePinnedLines(lg, st1, date)

\* Set.prototype.delete(line) on the insertion-ordered set
SetDelete(set, line) ==
    LET Other(x) == x # line
    IN SelectSeq(set, Other)

\* releasePinnedLine with the pinnedLines.delete(line) lost
releasePinnedLineKeepsLine(lg, line, st, date) ==
    IF isPinnedLineBound(st, lg, line)
    THEN LET Logged(r) == [ev |-> r.ev, st |-> r.st, exc |-> r.exc, ret |-> "true"]
         IN Logged(log(lg, getLevel(st, line), <<getContent(st, line)>>, st, date,
                       MaxDepth))
    ELSE [ev |-> <<>>, st |-> st, exc |-> "none", ret |-> "false"]

\* releasePinnedLine without the isPinnedLineBound test
releasePinnedLineUnchecked(lg, line, st, date) ==
    LET st1 == [st EXCEPT !.pinned[lg] = SetDelete(@, line)]
        Logged(r) == [ev |-> r.ev, st |-> r.st, exc |-> r.exc, ret |-> "true"]
    IN Logged(log(lg, getLevel(st1, line), <<getContent(st1, line)>>, st1, date,
                  MaxDepth))

\* Logger.releasePinnedLine(line): ret is the value returned when no
\* exception is thrown
releasePinnedLine(lg, line, st, date) ==
    IF isPinnedLineBound(st, lg, line)
    THEN LET st1 == [st EXCEPT !.pinned[lg] = SetDelete(@, line)]
             Logged(r) == [ev |-> r.ev, st |-> r.st, exc |-> r.exc, ret |-> "true"]
         IN Logged(log(lg, getLevel(st1, line), <<getContent(st1, line)>>, st1, date,
                       MaxDepth))
    ELSE [ev |-> <<>>, st |-> st, exc |-> "none", ret |-> "false"]

\* Array.prototype.includes(stream): identity of the object.  The objects
\* the constructor built are its own; an added LoggerStream is itself.
Includes(list, stream) ==
    \E k \in 1..Len(list) : ~list[k].determined /\ list[k].id = stream.id

\* Logger.addStream(stream): the new streams array
addStream(list, stream) ==
    IF ~Includes(list, stream) THEN Append(list, stream) ELSE list

RECURSIVE removeOutputFirst(_, _)
\* removeOutput that stops at the first stream it removes
removeOutputFirst(list, outputStream) ==
    IF list = <<>> THEN <<>>
    ELSE IF Head(list).stream = outputStream THEN Tail(list)
    ELSE <<Head(list)>> \o removeOutputFirst(Tail(list), outputStream)

\* Logger.removeOutput(outputStream): the new streams array
removeOutput(list, outputStream) ==
    LET Keep(stream) == stream.stream # outputStream
    IN SelectSeq(list, Keep)

(***************************************************************************)
(* The configurations the loggers are constructed with.  C forwards to B,  *)
(* B forwards to A, and each logger has a destination of its own (the      *)
(* hierarchy of test/index.test.ts, 'respects logger hierarchy').          *)
(***************************************************************************)
U == Undefined

Plain(id, dst, level) == Opt(id, dst, level, "empty", U, U, U)

BaseA == <<Plain("a1", "dA", LvName("WARN"))>>
BaseB == <<Opt("b1", "A", LvName("INFO"), U, U, U, U), Plain("b2", "dB", LvName("INFO"))>>
BaseC == <<Opt("c1", "B", LvName("DEBUG"), U, U, U, U), Plain("c2", "dC", LvName("DEBUG"))>>

Scenario(a, b, c) == [l \in Loggers |-> CASE l = "A" -> a [] l = "B" -> b [] l = "C" -> c]

\* thresholds given as a name, as a number, left out, or given as a predicate
LevelOptions ==
    {LvName(n) : n \in BuiltinLevelSet \cup {"NONE"}}
    \cup {LvNumber(k) : k \in {2, 4}}
    \cup {LvUndefined, LvFunction("infoToWarn")}

DataHooks == {"replace", "suppress", "invalid"}
StringHooks == {"replace", "suppress", "invalid"}

RoutingScenarios ==
    {Scenario(<<Plain("a1", "dA", lv)>>, BaseB, BaseC) : lv \in LevelOptions}
    \cup {Scenario(<<BaseA[1], Opt("a2", "dA", LvName("INFO"), "tag", U, U, U),
                     Opt("a3", "file", LvUndefined, "empty", U, U, U)>>,
                   BaseB, BaseC)}
    \cup {Scenario(<<Opt("a1", "file", LvUndefined, pf, U, U, U)>>, BaseB, BaseC) :
            pf \in {U, "empty"}}
    \cup {Scenario(<<Opt("a1", "dA", LvUndefined, "empty", U, h, U)>>, BaseB, BaseC) :
            h \in {"invalid"}}
    \cup {Scenario(<<Opt("a1", "dA", LvUndefined, "empty", U, U, h)>>, BaseB, BaseC) :
            h \in {"invalid"}}
    \cup {Scenario(BaseA,
                   <<Opt("b1", "A", LvName("INFO"), U, U, h, U), BaseB[2]>>, BaseC) :
            h \in DataHooks}
    \cup {Scenario(BaseA,
                   <<Opt("b1", "A", LvName("INFO"), U, U, U, h), BaseB[2]>>, BaseC) :
            h \in StringHooks}
    \cup {Scenario(BaseA,
                   <<BaseB[1], Opt("b2", "dB", LvName("INFO"), "tag", U, h, U)>>, BaseC) :
            h \in DataHooks}
    \cup {Scenario(BaseA,
                   <<BaseB[1], Opt("b2", "dB", LvName("INFO"), "tag", U, U, h)>>, BaseC) :
            h \in StringHooks}

\* A writes to a terminal
PinnedScenarios ==
    {Scenario(<<Opt("a1", "tty", lv, "empty", U, U, U)>>, BaseB, BaseC) :
        lv \in {LvUndefined, LvName("WARN")}}
    \cup {Scenario(<<Opt("a1", "tty", LvUndefined, "tag", "false", U, U)>>, BaseB, BaseC)}
    \cup {Scenario(<<Opt("a1", "tty", LvUndefined, "empty", U, U, h),
                     Plain("a2", "dA", LvUndefined)>>, BaseB, BaseC) :
            h \in {"invalidWarn", "suppressWarn"}}
    \cup {Scenario(<<Opt("a1", "tty", LvUndefined, "empty", U, h, U),
                     Plain("a2", "dA", LvUndefined)>>, BaseB, BaseC) :
            h \in {"suppressWarn"}}

\* the loggers of the hierarchy, and the hierarchy with A constructed with
\* streams: []
RegistryScenarios ==
    {Scenario(BaseA, BaseB, BaseC), Scenario(<<>>, BaseB, BaseC),
     Scenario(<<Opt("a1", "dA", LvUndefined, "empty", U, "replace", U)>>, BaseB, BaseC)}

\* the arguments addLoggerLevel is called with
LevelIdentifiers ==
    {JsString(n) : n \in {"trace", "TRACE", "warn", "notice"}} \cup {JsNumber(7)}
LevelImportances == {JsNumber(0 - 1), JsNumber(2), JsNumber(5), JsString("5")}
LevelFormattings ==
    {[t |-> "undefined", ansiColor |-> JsUndefined],
     [t |-> "object", ansiColor |-> JsNumber(35)],
     [t |-> "object", ansiColor |-> JsString("35")],
     [t |-> "string", ansiColor |-> JsUndefined]}
\* the level names log is called with while levels are registered ("trace"
\* is never a key of the registry), and the values logged
RegistryCallLevels == {"INFO", "TRACE", "trace"}
RegistryCallData == {<< <<"f", "o", "o">> >>}
\* the level names coloredLog is called with and the clock readings
PrefixLevels == BuiltinLevelSet \cup {"NONE", "TRACE", "NOTICE"}
ClockDates == {<<5, 9, 2>>, <<0, 0, 0>>, <<23, 59, 59>>}
\* the numbers getLoggerLevelName is called with
LevelNumbers == (0 - 2)..6

\* the strings stripANSIFormatting is called with: every string of at most
\* MaxStringLen characters over an introducer, an opener, a final character
\* and a character of no class
StringAlphabet == {ESC, "[", "m", "x"}
StripInputs == UNION {[1..k -> StringAlphabet] : k \in 0..MaxStringLen}

\* A's only target is an fs.WriteStream: with default options, with a prefix
\* function given, with a threshold given
FileScenarios ==
    {Scenario(<<Opt("a1", "file", level, prefix, U, U, U)>>, BaseB, BaseC) :
        level \in {LvUndefined, LvName("WARN")}, prefix \in {U, "empty", "tag"}}
\* the values logged to the file: "test", a coloured "Hello" before " World!",
\* and texts whose escape sequences overlap
Test == <<"t", "e", "s", "t">>
HelloWorld ==
    <<ESC, "[", "3", "3", "m", "H", "e", "l", "l", "o", ESC, "[", "3", "9", "m",
      " ", "W", "o", "r", "l", "d", "!">>
FileData ==
    {<<Test>>, <<HelloWorld>>, << <<ESC, ESC, "m", "m">> >>,
     << <<ESC, "[", ESC, "[", "m", "m">>, <<"x">> >>, << <<"a", NL, "b">> >>}
FileCallLevels == {"DEBUG", "INFO", "ERROR"}
FileDates == {<<5, 9, 2>>, <<0, 0, 0>>, <<23, 59, 59>>}

\* A writes to one terminal behind a prefix, to one that admits WARN and
\* above, or to two terminals
RedrawScenarios ==
    {Scenario(<<Opt("a1", "tty", LvUndefined, "tag", U, U, U)>>, BaseB, BaseC),
     Scenario(<<Opt("a1", "tty", LvName("WARN"), "empty", U, U, U)>>, BaseB, BaseC),
     Scenario(<<Opt("a1", "tty", LvUndefined, "empty", U, U, U),
                Opt("a2", "tty2", LvUndefined, "empty", U, U, U)>>, BaseB, BaseC)}
\* the contents given to pinned lines there: two lines, and one line longer
\* than the terminal is wide
RedrawContents == {<<"a", NL, "b">>, <<"l", "o", "n", "g", "e">>}
RedrawCallData == {<< <<"f", "o", "o">> >>}

\* forwarding and prefixes: B forwards to A, whose target is a file, through a
\* target that is given a prefix function or an interceptor; A, which has no
\* identifier, forwards to B, and C writes a terminal as a plain destination
ForwardScenarios ==
    {Scenario(<<Opt("a1", "file", LvUndefined, "tag", U, U, U)>>,
              <<Opt("b1", "A", LvUndefined, "tag", U, dh, sh),
                Opt("b2", "dB", LvUndefined, "tag", U, U, U)>>,
              BaseC) :
        dh \in {U, "replace"}, sh \in {U, "replace"}}
    \cup {Scenario(<<Opt("a1", "B", LvUndefined, U, U, U, U), Plain("a2", "dA", LvUndefined)>>,
                   <<Opt("b2", "dB", LvUndefined, "tag", U, U, U)>>,
                   <<Opt("c1", "B", LvUndefined, U, U, U, U),
                     Opt("c2", "tty", LvUndefined, "tag", "false", U, U)>>)}
ForwardData ==
    {<< <<"f", "o", "o">> >>, << <<"a", NL, "b">>, <<"c">> >>,
     << <<ESC, "[", "1", "m", "x">> >>}

\* who draws pinned lines: A writes a terminal, a terminal that allows no
\* pinned lines and a plain destination, and B forwards to A; or A and B each
\* write a terminal of their own and B forwards to A
OwnerScenarios ==
    {Scenario(<<Opt("a1", "tty2", LvUndefined, "empty", "false", U, U),
                Plain("a2", "dA", LvUndefined),
                Opt("a3", "tty", LvUndefined, "empty", U, U, U)>>, BaseB, BaseC),
     Scenario(<<Opt("a1", "tty", LvUndefined, "empty", U, U, U)>>,
              <<BaseB[1], Opt("b2", "tty2", LvUndefined, "empty", U, U, U)>>, BaseC)}
\* the loggers pinned lines are created, redrawn and released on there, the
\* level of the lines and of the log calls
OwnerLoggers == {"A", "B"}
OwnerLevels == {"INFO"}

\* the hierarchy C -> B -> A, B's forwarding target with or without a string
\* interceptor that returns null, and the LoggerStream objects addStream is
\* given to close a cycle: A to B, A to itself, A to C, and A to B with no
\* level function (addStream does not put one in)
CycleScenarios ==
    {Scenario(BaseA, <<Opt("b1", "A", LvName("INFO"), U, U, U, h), BaseB[2]>>, BaseC) :
        h \in {U, "suppress"}}
CycleStreams ==
    {Opt("k1", "B", LvFunction("always"), U, U, U, U),
     Opt("k2", "A", LvFunction("always"), U, U, U, U),
     Opt("k3", "C", LvFunction("always"), U, U, U, U),
     Opt("k4", "B", LvUndefined, U, U, U, U)}
CycleRemoved == {"A", "B", "dA"}

\* A writes to a destination whose write() throws: a plain one, a terminal
\* with pinned lines, a terminal without
FailureScenarios ==
    {Scenario(<<Opt("a1", d, LvUndefined, "empty", pin, U, U),
                Plain("a2", "dA", LvUndefined)>>, BaseB, BaseC) :
        d \in {"dX", "ttyX"}, pin \in {U, "false"}}

\* the LoggerStream objects addStream is called with on logger lg: the objects
\* its constructor was given, and two new ones for a destination A already has
NewStreams ==
    {Opt("n1", "dA", LvFunction("always"), "empty", U, U, U),
     Opt("n2", "dA", LvUndefined, U, U, U, U)}
AddPool(lg) == {options[lg][k] : k \in 1..Len(options[lg])} \cup NewStreams

\* the levels log is called with, the values logged, the levels and contents
\* of pinned lines, the loggers pinned lines are created on
CallLevels == BuiltinLevelSet
DataChoices == {<< <<"f", "o", "o">> >>, << <<"a", NL, "b">>, <<"c">> >>}
LineLevels == {"INFO", "WARN"}
LineContents == {<<"p", "q">>}
LineOwners == {"A"}
\* the loggers releasePinnedLine is called on: the owner, and another logger
ReleaseLoggers == {"A", "C"}
\* the log calls made while lines are pinned
PinnedCallLoggers == {"A", "B"}
PinnedCallLevels == {"INFO", "WARN"}
\* the loggers addStream and removeOutput are called on, the handles removed
EditedLoggers == {"A"}
RemovedHandles == {"dA", "dB", "file"}

(***************************************************************************)
(* Initial states and actions: one action per public operation.            *)
(***************************************************************************)
InitWith(scenarios) ==
    /\ LoggerLevel = DefaultLoggerLevel
    /\ levelsByImportance = DefaultLevelsByImportance
    /\ \E sc \in scenarios :
          /\ options = sc
          /\ streams = [l \in Loggers |-> Constructor(sc[l])]
    /\ pinnedLines = [l \in Loggers |-> <<>>]
    /\ previousLineSize = [l \in Loggers |-> <<>>]
    /\ lines = <<>>
    /\ edits = 0
    /\ op = [name |-> "new", lg |-> "", level |-> "", data |-> <<>>, line |-> 0,
             h |-> "", id |-> ""]
    /\ out = <<>>
    /\ ret = "void"

State == [prev |-> previousLineSize, pinned |-> pinnedLines, lines |-> lines]

\* r is the outcome of a routine: the mutable state after it, what it did
Commit(r, value) ==
    /\ previousLineSize' = r.st.prev
    /\ pinnedLines' = r.st.pinned
    /\ lines' = r.st.lines
    /\ out' = r.ev
    /\ ret' = IF r.exc = "none" THEN value ELSE r.exc

\* logger.log(level, ...data), also logger.debug / info / warn / error / fatal
Log(lg, level, data, date) ==
    /\ Commit(log(lg, level, data, State, date, MaxDepth), "void")
    /\ op' = [name |-> "log", lg |-> lg, level |-> level, data |-> data, line |-> 0,
              h |-> "", id |-> ""]
    /\ UNCHANGED <<LoggerLevel, levelsByImportance, streams, options, edits>>

\* logger.addStream(stream)
AddStream(lg, stream) ==
    /\ Len(streams[lg]) < MaxStreams
    /\ streams' = [streams EXCEPT ![lg] = addStream(@, stream)]
    /\ edits' = IF streams' # streams THEN edits + 1 ELSE edits
    /\ edits' <= MaxEdits
    /\ op' = [name |-> "addStream", lg |-> lg, level |-> "", data |-> <<>>, line |-> 0,
              h |-> stream.stream, id |-> stream.id]
    /\ out' = <<>>
    /\ ret' = "this"
    /\ UNCHANGED <<LoggerLevel, levelsByImportance, pinnedLines, previousLineSize,
                   lines, options>>

\* logger.removeOutput(outputStream)
RemoveOutput(lg, outputStream) ==
    /\ streams' = [streams EXCEPT ![lg] = removeOutput(@, outputStream)]
    /\ edits' = IF streams' # streams THEN edits + 1 ELSE edits
    /\ edits' <= MaxEdits
    /\ op' = [name |-> "removeOutput", lg |-> lg, level |-> "", data |-> <<>>, line |-> 0,
              h |-> outputStream, id |-> ""]
    /\ out' = <<>>
    /\ ret' = "this"
    /\ UNCHANGED <<LoggerLevel, levelsByImportance, pinnedLines, previousLineSize,
                   lines, options>>

\* logger.createPinnedLine(level, initialMessage?)
CreatePinnedLine(lg, level, hasInitialMessage, initialMessage, date) ==
    /\ Len(lines) < MaxLines
    /\ Commit(createPinnedLine(lg, level, hasInitialMessage, initialMessage, State, date),
              "line")
    /\ op' = [name |-> "createPinnedLine", lg |-> lg, level |-> level,
              data |-> IF hasInitialMessage THEN <<initialMessage>> ELSE <<>>,
              line |-> Len(lines) + 1, h |-> "", id |-> ""]
    /\ UNCHANGED <<LoggerLevel, levelsByImportance, streams, options, edits>>

\* line.setContent(message)
SetContent(line, message, date) ==
    /\ Commit(setContent(line, message, State, date), "this")
    /\ op' = [name |-> "setContent", lg |-> lines[line].parent, level |-> "",
              data |-> <<message>>, line |-> line, h |-> "", id |-> ""]
    /\ UNCHANGED <<LoggerLevel, levelsByImportance, streams, options, edits>>

\* logger.releasePinnedLine(line); line.release() is the call on the parent
ReleasePinnedLine(lg, line, date) ==
    /\ LET Returned(r) == Commit(r, r.ret)
       IN Returned(releasePinnedLine(lg, line, State, date))
    /\ op' = [name |-> "releasePinnedLine", lg |-> lg, level |-> "", data |-> <<>>,
              line |-> line, h |-> "", id |-> ""]
    /\ UNCHANGED <<LoggerLevel, levelsByImportance, streams, options, edits>>

\* logger.updatePinnedLines()
UpdatePinnedLines(lg, date) ==
    /\ Commit(updatePinnedLines(lg, State, date), "void")
    /\ op' = [name |-> "updatePinnedLines", lg |-> lg, level |-> "", data |-> <<>>,
              line |-> 0, h |-> "", id |-> ""]
    /\ UNCHANGED <<LoggerLevel, levelsByImportance, streams, options, edits>>

\* util.addLoggerLevel(identifier, data)
AddLoggerLevel(identifier, data) ==
    /\ LET Registered(r) ==
               /\ LoggerLevel' = r.LoggerLevel
               /\ levelsByImportance' = r.levelsByImportance
               /\ ret' = IF r.exc = "none" THEN "data" ELSE r.exc
       IN Registered(addLoggerLevel(identifier, data, LoggerLevel, levelsByImportance))
    /\ op' = [name |-> "addLoggerLevel", identifier |-> identifier, data |-> data]
    /\ out' = <<>>
    /\ UNCHANGED <<streams, pinnedLines, previousLineSize, lines, options, edits>>

\* getLoggerLevelName(level)
GetLoggerLevelName(level) ==
    /\ ret' = getLoggerLevelName(level)
    /\ op' = [name |-> "getLoggerLevelName", level |-> level]
    /\ out' = <<>>
    /\ UNCHANGED <<LoggerLevel, levelsByImportance, streams, pinnedLines,
                   previousLineSize, lines, options, edits>>

\* stripANSIFormatting(string); the string returned is out[1].s
StripANSIFormatting(string) ==
    /\ out' = <<Ev("return", "", 0, "", "", <<>>, stripANSIFormatting(string), 0)>>
    /\ ret' = "string"
    /\ op' = [name |-> "stripANSIFormatting", string |-> string]
    /\ UNCHANGED <<LoggerLevel, levelsByImportance, streams, pinnedLines,
                   previousLineSize, lines, options, edits>>

\* coloredLog(levelName); the string returned is out[1].s.  A name that is no
\* key of LoggerLevel makes level undefined, and level.formatting throws.
ColoredLog(levelName, date) ==
    /\ IF levelName \in DOMAIN LoggerLevel
       THEN /\ out' = <<Ev("return", "", 0, "", levelName, <<>>,
                           coloredLog(levelName, date), 0)>>
            /\ ret' = "string"
       ELSE /\ out' = <<>>
            /\ ret' = "TypeError"
    /\ op' = [name |-> "coloredLog", levelName |-> levelName, date |-> date]
    /\ UNCHANGED <<LoggerLevel, levelsByImportance, streams, pinnedLines,
                   previousLineSize, lines, options, edits>>

DoColoredLog ==
    \E levelName \in PrefixLevels, date \in ClockDates : ColoredLog(levelName, date)
DoStripANSIFormatting == \E string \in StripInputs : StripANSIFormatting(string)
DoAddLoggerLevel ==
    \E identifier \in LevelIdentifiers, importance \in LevelImportances,
       formatting \in LevelFormattings :
        AddLoggerLevel(identifier, [importance |-> importance, formatting |-> formatting])
DoGetLoggerLevelName == \E level \in LevelNumbers : GetLoggerLevelName(level)
DoLogRegistry ==
    \E lg \in Loggers, level \in RegistryCallLevels, data \in RegistryCallData,
       date \in Dates :
        Log(lg, level, data, date)
DoLog == \E lg \in Loggers, level \in CallLevels, data \in DataChoices, date \in Dates :
            Log(lg, level, data, date)
DoLogFile ==
    \E level \in FileCallLevels, data \in FileData, date \in FileDates :
        Log("A", level, data, date)
DoLogForward ==
    \E lg \in Loggers, level \in CallLevels, data \in ForwardData, date \in Dates :
        Log(lg, level, data, date)
DoLogCycle ==
    \E lg \in Loggers, level \in CallLevels, data \in RegistryCallData, date \in Dates :
        Log(lg, level, data, date)
DoAddStreamCycle == \E lg \in {"A", "B"}, stream \in CycleStreams : AddStream(lg, stream)
DoRemoveOutputCycle == \E lg \in {"A", "B"}, h \in CycleRemoved : RemoveOutput(lg, h)
DoLogPinned ==
    \E lg \in PinnedCallLoggers, level \in PinnedCallLevels, data \in DataChoices,
       date \in Dates :
        Log(lg, level, data, date)
DoAddStream == \E lg \in EditedLoggers : \E stream \in AddPool(lg) : AddStream(lg, stream)
DoRemoveOutput == \E lg \in EditedLoggers, h \in RemovedHandles : RemoveOutput(lg, h)
DoCreatePinnedLine ==
    \E lg \in LineOwners, level \in LineLevels, date \in Dates :
        \/ CreatePinnedLine(lg, level, FALSE, <<>>, date)
        \/ \E m \in LineContents : CreatePinnedLine(lg, level, TRUE, m, date)
DoSetContent ==
    \E line \in 1..Len(lines), m \in LineContents, date \in Dates : SetContent(line, m, date)
DoCreateRedraw ==
    \E lg \in LineOwners, level \in LineLevels, date \in Dates :
        \/ CreatePinnedLine(lg, level, FALSE, <<>>, date)
        \/ \E m \in RedrawContents : CreatePinnedLine(lg, level, TRUE, m, date)
DoSetContentRedraw ==
    \E line \in 1..Len(lines), m \in RedrawContents, date \in Dates :
        SetContent(line, m, date)
DoLogRedraw ==
    \E lg \in LineOwners, level \in PinnedCallLevels, data \in RedrawCallData,
       date \in Dates :
        Log(lg, level, data, date)
DoCreateOwner ==
    \E lg \in OwnerLoggers, level \in OwnerLevels, date \in Dates :
        \/ CreatePinnedLine(lg, level, FALSE, <<>>, date)
        \/ \E m \in LineContents : CreatePinnedLine(lg, level, TRUE, m, date)
DoUpdateOwner == \E lg \in OwnerLoggers, date \in Dates : UpdatePinnedLines(lg, date)
DoReleaseOwner ==
    \E lg \in OwnerLoggers, line \in 1..Len(lines), date \in Dates :
        ReleasePinnedLine(lg, line, date)
DoLogOwner ==
    \E lg \in OwnerLoggers, level \in OwnerLevels, data \in RedrawCallData,
       date \in Dates :
        Log(lg, level, data, date)
DoReleasePinnedLine ==
    \E lg \in ReleaseLoggers, line \in 1..Len(lines), date \in Dates :
        ReleasePinnedLine(lg, line, date)
DoUpdatePinnedLines == \E lg \in LineOwners, date \in Dates : UpdatePinnedLines(lg, date)

\* routing: log calls and changes of the streams arrays
InitRouting == InitWith(RoutingScenarios)
NextRouting == DoLog \/ DoAddStream \/ DoRemoveOutput
SpecRouting == InitRouting /\ [][NextRouting]_vars

\* the level registry: registrations, and log calls by level name
InitRegistry == InitWith(RegistryScenarios)
NextRegistry ==
    \/ DoAddLoggerLevel
    \/ DoGetLoggerLevelName
    \/ DoLogRegistry
    \/ DoColoredLog
SpecRegistry == InitRegistry /\ [][NextRegistry]_vars

\* a logger that writes to a file
InitFile == InitWith(FileScenarios)
NextFile == DoLogFile
SpecFile == InitFile /\ [][NextFile]_vars

\* stripANSIFormatting on its own
InitStrip == InitWith({Scenario(BaseA, BaseB, BaseC)})
NextStrip == DoStripANSIFormatting
SpecStrip == InitStrip /\ [][NextStrip]_vars

\* destinations whose write() throws
InitFailure == InitWith(FailureScenarios)
NextFailure ==
    \/ DoLogPinned
    \/ DoCreatePinnedLine
    \/ DoSetContent
    \/ DoReleasePinnedLine
    \/ DoUpdatePinnedLines
SpecFailure == InitFailure /\ [][NextFailure]_vars

\* forwarding to nested loggers and the prefix of raw destinations
InitForward == InitWith(ForwardScenarios)
NextForward == DoLogForward
SpecForward == InitForward /\ [][NextForward]_vars

\* pinned lines of two loggers
InitOwner == InitWith(OwnerScenarios)
NextOwner ==
    \/ DoLogOwner
    \/ DoCreateOwner
    \/ DoSetContent
    \/ DoReleaseOwner
    \/ DoUpdateOwner
SpecOwner == InitOwner /\ [][NextOwner]_vars

\* loggers that forward in a circle
InitCycle == InitWith(CycleScenarios)
NextCycle == DoLogCycle \/ DoAddStreamCycle \/ DoRemoveOutputCycle
SpecCycle == InitCycle /\ [][NextCycle]_vars

\* the rows of a redraw
InitRedraw == InitWith(RedrawScenarios)
NextRedraw ==
    \/ DoLogRedraw
    \/ DoCreateRedraw
    \/ DoSetContentRedraw
    \/ DoReleasePinnedLine
    \/ DoUpdatePinnedLines
SpecRedraw == InitRedraw /\ [][NextRedraw]_vars

\* pinned lines on a terminal
InitPinned == InitWith(PinnedScenarios)
NextPinned ==
    \/ DoLogPinned
    \/ DoCreatePinnedLine
    \/ DoSetContent
    \/ DoReleasePinnedLine
    \/ DoUpdatePinnedLines
SpecPinned == InitPinned /\ [][NextPinned]_vars

(***************************************************************************)
(* Properties.  They read the last call (op), what it did (out) and how it *)
(* completed (ret).                                                        *)
(***************************************************************************)
Importance(level) == LoggerLevel[level].importance

\* the strings the last call wrote to destination dst, in order
WritesTo(dst) ==
    LET Hit(e) == e.k = "write" /\ e.dst = dst
        hits == SelectSeq(out, Hit)
    IN [n \in 1..Len(hits) |-> hits[n].s]

\* the steps of ev made by stream i of logger lg that are of kind k
StepsOf(ev, k, lg, i) ==
    LET Hit(e) == e.k = k /\ e.lg = lg /\ e.i = i
    IN SelectSeq(ev, Hit)

\* step e is a hook invocation that returned a value outside its contract
InvalidAt(e) ==
    \/ e.k = "interceptData"
       /\ HookResult(streams[e.lg][e.i].interceptData, e.lvl) = "invalid"
    \/ e.k = "interceptString"
       /\ HookResult(streams[e.lg][e.i].interceptString, e.lvl) = "invalid"
HasInvalid(ev) == \E n \in 1..Len(ev) : InvalidAt(ev[n])

\* step e is a hook invocation that returned null
SuppressAt(e) ==
    \/ e.k = "interceptData"
       /\ HookResult(streams[e.lg][e.i].interceptData, e.lvl) = "null"
    \/ e.k = "interceptString"
       /\ HookResult(streams[e.lg][e.i].interceptString, e.lvl) = "null"

\* a raw destination with no interceptor
Unhooked(stream) ==
    /\ ~IsLogger(stream.stream)
    /\ stream.interceptData = Undefined
    /\ stream.interceptString = Undefined

TheBaseStreams == [l \in Loggers |-> Constructor(Scenario(BaseA, BaseB, BaseC)[l])]
Foo == <<"f", "o", "o">>

\* C1: a target configured with a level name or a number L is written by a
\* log call at level C (direct or forwarded) only if importance(C) >=
\* importance(L), and a target of the called logger with no interceptor is
\* written whenever importance(C) >= importance(L).
C1_LevelGate ==
    op.name = "log" =>
        /\ \A n \in 1..Len(out) :
              (out[n].k = "write" /\ streams[out[n].lg][out[n].i].level.v = "atLeast")
              => Importance(out[n].lvl) >= streams[out[n].lg][out[n].i].level.n
        /\ ret = "void" =>
              \A j \in 1..Len(streams[op.lg]) :
                  (/\ streams[op.lg][j].level.v = "atLeast"
                   /\ Unhooked(streams[op.lg][j])
                   /\ Importance(op.level) >= streams[op.lg][j].level.n)
                  => StepsOf(out, "write", op.lg, j) # <<>>

\* A, whose only target is dA at WARN, is called at INFO and dA is written
C1_BelowThresholdWritten ==
    /\ op.name = "log" /\ op.lg = "A" /\ op.level = "INFO"
    /\ streams["A"] = TheBaseStreams["A"]
    /\ WritesTo("dA") # <<>>

\* C2: with C -> B -> A and A's only destination at WARN, C.info("foo")
\* writes "[C] foo\n" to B's destination, "foo\n" to C's and nothing to A's,
\* and C.warn("foo") also writes "[B] [C] foo\n" to A's: the identifiers of
\* the forwarding loggers stand in front, nearest the destination first, and
\* the called logger's own destination gets no identifier.
C2_Hierarchy ==
    (/\ op.name = "log" /\ op.lg = "C" /\ op.level \in {"INFO", "WARN"}
     /\ op.data = <<Foo>>
     /\ streams = TheBaseStreams)
    => /\ WritesTo("dC") = <<Foo \o <<NL>>>>
       /\ WritesTo("dB") = <<<<"[", "C", "]", " ">> \o Foo \o <<NL>>>>
       /\ WritesTo("dA") = IF op.level = "WARN"
                           THEN <<<<"[", "B", "]", " ", "[", "C", "]", " ">> \o Foo \o <<NL>>>>
                           ELSE <<>>

\* C.info("foo") in the hierarchy reaches A's WARN destination
C2_InfoReachesA ==
    /\ op.name = "log" /\ op.lg = "C" /\ op.level = "INFO" /\ op.data = <<Foo>>
    /\ streams = TheBaseStreams
    /\ WritesTo("dB") = <<<<"[", "C", "]", " ">> \o Foo \o <<NL>>>>
    /\ WritesTo("dA") = <<<<"[", "B", "]", " ", "[", "C", "]", " ">> \o Foo \o <<NL>>>>

\* C3: the array a target's data interceptor returns is used for that target
\* only: every other target of the called logger, earlier or later in the
\* list, formats the values passed to log.
C3_ReplacementIsLocal ==
    (op.name = "log" /\ ret = "void") =>
        \A j \in 1..Len(streams[op.lg]) :
            (/\ streams[op.lg][j].interceptData = Undefined
             /\ ~IsLogger(streams[op.lg][j].stream))
            => \A n \in 1..Len(out) :
                  (out[n].k = "write" /\ out[n].lg = op.lg /\ out[n].i = j)
                  => \E date \in Dates :
                        out[n].s = dataToMessage(op.lg, j, streams[op.lg][j], op.level,
                                                 op.data, date).msg \o <<NL>>

\* B's first target replaces the data and B's second target writes the
\* replacement
C3_ReplacementLeaks ==
    /\ op.name = "log" /\ op.lg = "B" /\ op.data = <<Foo>>
    /\ Len(streams["B"]) = 2
    /\ streams["B"][1].interceptData = "replace"
    /\ streams["B"][2].interceptData = Undefined
    /\ WritesTo("dB") = <<ReplacementData[1] \o <<NL>>>>

\* C4: after a target's data interceptor returns null nothing else of that
\* target runs in the call (no string interceptor, no prefix, no write, no
\* forward); after its string interceptor returns null no prefix, write or
\* forward of that target follows; and the call goes on to the logger's
\* other targets: each of them that admits the level and has no interceptor
\* is written.
C4_Suppress ==
    op.name = "log" =>
        \A n \in 1..Len(out) :
            SuppressAt(out[n]) =>
                /\ \A m \in 1..Len(out) :
                      (out[m].lg = out[n].lg /\ out[m].i = out[n].i /\ m # n)
                      => (m < n /\ out[n].k = "interceptString"
                                /\ out[m].k = "interceptData")
                /\ n < Len(out) => ~(out[n + 1].k = "log" /\ out[n + 1].lg = out[n].dst)
                /\ ret = "void" =>
                      \A j \in 1..Len(streams[out[n].lg]) :
                          (/\ j # out[n].i
                           /\ Unhooked(streams[out[n].lg][j])
                           /\ CallLevel(streams[out[n].lg][j].level,
                                        Importance(out[n].lvl)) = "true")
                          => StepsOf(out, "write", out[n].lg, j) # <<>>

\* B's forward to A is suppressed by an interceptor and B's own destination
\* is written
C4_SuppressedForward ==
    /\ op.name = "log" /\ op.lg = "B" /\ ret = "void"
    /\ \E n \in 1..Len(out) : SuppressAt(out[n]) /\ out[n].dst = "A"
    /\ WritesTo("dB") # <<>>
    /\ WritesTo("dA") = <<>>

\* C5: when an interceptor invoked by a log call returns a value outside its
\* contract, the call throws a TypeError to its caller and no write follows
\* the invocation.
C5_InvalidRaises ==
    op.name = "log" =>
        \A n \in 1..Len(out) :
            InvalidAt(out[n]) =>
                /\ ret = "TypeError"
                /\ \A m \in (n + 1)..Len(out) : out[m].k # "write"

\* a log call returns normally although a string interceptor returned an
\* invalid value while the pinned lines were redrawn, and a later target is
\* written
C5_InvalidSwallowed ==
    /\ op.name = "log" /\ ret = "void"
    /\ \E n \in 1..Len(out) :
          /\ InvalidAt(out[n])
          /\ \E m \in (n + 1)..Len(out) : out[m].k = "write" /\ out[m].dst = "dA"

\* stream is a terminal that pinned lines are drawn on
Eligible(stream) ==
    IsTtyWriteStream(stream.stream) /\ stream.allowPinnedLines = "true"

\* the pinned lines stream i of logger lg drew in ev, in order of drawing
RowsDrawn(ev, lg, i) ==
    LET Row(e) == e.k = "write" /\ e.lg = lg /\ e.i = i /\ e.n # 0 /\ e.s = <<NL>>
        rows == SelectSeq(ev, Row)
    IN [n \in 1..Len(rows) |-> rows[n].n]

\* the lines among set (with levels as in all) that stream draws: those its
\* level admits and its string interceptor does not suppress
RowsDue(stream, set, all) ==
    LET Shown(l) ==
            /\ CallLevel(stream.level, Importance(all[l].level)) = "true"
            /\ \/ stream.interceptString = Undefined
               \/ HookResult(stream.interceptString, all[l].level) # "null"
    IN SelectSeq(set, Shown)

Without(set, line) ==
    LET Other(x) == x # line
    IN SelectSeq(set, Other)

\* the step releases line, which is (bound = TRUE) or is not bound to lg
Releases(lg, line, bound) ==
    /\ op'.name = "releasePinnedLine" /\ op'.lg = lg /\ op'.line = line
    /\ bound = (\E k \in 1..Len(pinnedLines[lg]) : pinnedLines[lg][k] = line)

C6_Step ==
    \A lg \in ReleaseLoggers : \A line \in 1..Len(lines) :
        Releases(lg, line, TRUE) =>
            /\ pinnedLines'[lg] = Without(pinnedLines[lg], line)
            /\ Len(pinnedLines'[lg]) = Len(pinnedLines[lg]) - 1
            /\ out'[1] = Ev("log", lg, 0, lg, lines[line].level,
                            <<IF lines[line].hasContent THEN lines[line].content ELSE <<>>>>,
                            <<>>, 0)
            /\ \A n \in 2..Len(out') : ~(out'[n].k = "log" /\ out'[n].lg = lg)
            /\ \/ ret' = "true"
               \/ ret' = "TypeError" /\ HasInvalid(out')
            /\ \A n \in 1..Len(out') : out'[n].k = "write" => out'[n].n # line
            /\ \A i \in 1..Len(streams[lg]) :
                  StepsOf(out', "moveCursor", lg, i) # <<>> =>
                      /\ previousLineSize'[lg][streams[lg][i].stream]
                           = Len(pinnedLines[lg]) - 1
                      /\ ~HasInvalid(out') =>
                            RowsDrawn(out', lg, i)
                              = RowsDue(streams[lg][i], pinnedLines'[lg], lines)

C7_Step ==
    \A lg \in ReleaseLoggers : \A line \in 1..Len(lines) :
        Releases(lg, line, FALSE) =>
            /\ ret' = "false"
            /\ out' = <<>>
            /\ pinnedLines' = pinnedLines
            /\ previousLineSize' = previousLineSize
            /\ lines' = lines

\* C7: releasePinnedLine on a line that is not bound to the logger returns
\* false, writes nothing and leaves the pinned sets and the recorded redraw
\* counts as they were.
C7_ReleaseUnbound == [][C7_Step]_vars

\* a line its logger has released already is released again
C7_ReleasedTwice ==
    /\ op.name = "releasePinnedLine" /\ ret = "false" /\ out = <<>>
    /\ lines[op.line].parent = op.lg
    /\ \A k \in 1..Len(pinnedLines[op.lg]) : pinnedLines[op.lg][k] # op.line
    /\ pinnedLines[op.lg] # <<>>

C8_Step ==
    \A line \in 1..Len(lines) : \A message \in LineContents :
        (op'.name = "setContent" /\ op'.line = line /\ op'.data = <<message>>) =>
            IF \A k \in 1..Len(pinnedLines[lines[line].parent]) :
                   pinnedLines[lines[line].parent][k] # line
            THEN /\ lines' = lines
                 /\ out' = <<>>
                 /\ previousLineSize' = previousLineSize
                 /\ pinnedLines' = pinnedLines
            ELSE /\ lines' = [lines EXCEPT ![line].hasContent = TRUE,
                                           ![line].content = message]
                 /\ pinnedLines' = pinnedLines
                 /\ \A n \in 1..Len(out') : out'[n].lg = lines[line].parent
                 /\ \A i \in 1..Len(streams[lines[line].parent]) :
                       /\ Len(StepsOf(out', "moveCursor", lines[line].parent, i))
                            = IF Eligible(streams[lines[line].parent][i]) THEN 1 ELSE 0
                       /\ (Eligible(streams[lines[line].parent][i]) /\ ~HasInvalid(out')) =>
                             RowsDrawn(out', lines[line].parent, i)
                               = RowsDue(streams[lines[line].parent][i],
                                         pinnedLines[lines[line].parent], lines)

\* C8: setContent on a line that is not bound changes nothing and writes
\* nothing; on a bound line it stores the content and redraws once on every
\* terminal target that allows pinned lines, and on no other target; a redraw
\* in which no interceptor returns an invalid value draws every pinned line
\* the target admits.
C8_SetContent == [][C8_Step]_vars

\* the content of one of two bound lines is set and both lines are redrawn,
\* the new content in its row
C8_BoundLineRedrawn ==
    /\ op.name = "setContent" /\ ret = "this"
    /\ Len(pinnedLines[op.lg]) = 2
    /\ lines[op.line].content = op.data[1]
    /\ \E i \in 1..Len(streams[op.lg]) :
          /\ RowsDrawn(out, op.lg, i) = pinnedLines[op.lg]
          /\ \E n \in 1..Len(out) :
                /\ out[n].k = "write" /\ out[n].n = op.line
                /\ out[n].s = Substring0(op.data[1], TtyColumns)

\* the targets of list whose destinations are pairwise different
DistinctDestinations(list) ==
    \A j, k \in 1..Len(list) : list[j].stream = list[k].stream => j = k

C9_Step ==
    \A lg \in Loggers :
        (/\ op'.name = "addStream" /\ op'.lg = lg
         /\ \E k \in 1..Len(streams[lg]) : streams[lg][k].stream = op'.h)
        => Len(streams'[lg]) = Len(streams[lg])

\* C9: addStream with a target whose destination is already the destination
\* of one of the logger's targets leaves the length of the target list as it
\* was, and a logger constructed with pairwise different destinations writes
\* to each destination at most once per target in a log call.
C9_AddStreamDedup ==
    /\ [][C9_Step]_vars
    /\ [](\A d \in Dests :
            (op.name = "log" /\ ret = "void" /\ DistinctDestinations(options[op.lg]))
            => Len(SelectSeq(out, LAMBDA e : e.k = "write" /\ e.lg = op.lg /\ e.dst = d)) <= 1)

\* A was constructed with one target on dA, a second target on dA was added,
\* and a log call wrote to dA twice
C9_WrittenTwice ==
    /\ op.name = "log" /\ op.lg = "A" /\ ret = "void"
    /\ Len(options["A"]) = 1
    /\ Len(streams["A"]) = 2
    /\ streams["A"][1].stream = "dA" /\ streams["A"][2].stream = "dA"
    /\ Len(WritesTo("dA")) = 2

C10_Step ==
    \A lg \in Loggers : \A h \in Handles :
        (op'.name = "removeOutput" /\ op'.lg = lg /\ op'.h = h) =>
            /\ streams'[lg] = SelectSeq(streams[lg], LAMBDA x : x.stream # h)
            /\ \A l \in Loggers \ {lg} : streams'[l] = streams[l]

\* C10: removeOutput(h) on a logger removes every target of it whose
\* destination is h and keeps the others in their order, other loggers keep
\* their targets, and a log call writes only to destinations of targets the
\* logger holds and writes every such target that has no interceptor and
\* admits the level.
C10_RemoveOutput ==
    /\ [][C10_Step]_vars
    /\ [](op.name = "log" =>
            /\ \A n \in 1..Len(out) :
                  out[n].k = "write" =>
                      /\ out[n].i \in 1..Len(streams[out[n].lg])
                      /\ streams[out[n].lg][out[n].i].stream = out[n].dst
            /\ ret = "void" =>
                  \A j \in 1..Len(streams[op.lg]) :
                      (/\ Unhooked(streams[op.lg][j])
                       /\ CallLevel(streams[op.lg][j].level, Importance(op.level)) = "true")
                      => StepsOf(out, "write", op.lg, j) # <<>>)

\* both targets on dA were removed from a logger constructed with three
\* targets, and the third is the one left
C10_BothRemoved ==
    /\ op.name = "removeOutput" /\ op.h = "dA"
    /\ Len(options[op.lg]) = 3
    /\ Len(streams[op.lg]) = 1
    /\ streams[op.lg][1].stream = "file"

\* a level name with its letters in lower case
LowerCase(name) ==
    CASE name \in {"trace", "TRACE"} -> "trace"
      [] name \in {"notice", "NOTICE"} -> "notice"
      [] name \in {"warn", "WARN"} -> "warn"
      [] name = "DEBUG" -> "debug"
      [] name = "INFO" -> "info"
      [] name = "ERROR" -> "error"
      [] name = "FATAL" -> "fatal"
      [] name = "NONE" -> "none"

C11_Step ==
    op'.name = "addLoggerLevel" =>
        /\ (/\ op'.identifier.t = "string"
            /\ \E n \in DOMAIN LoggerLevel : LowerCase(n) = LowerCase(op'.identifier.v))
           => ret' \in {"Error: exists", "TypeError"}
        /\ (/\ op'.data.importance.t = "number"
            /\ \E n \in DOMAIN LoggerLevel :
                  LoggerLevel[n].importance = op'.data.importance.n)
           => ret' \in {"Error: exists", "Error: importance", "TypeError"}
        /\ ret' # "data" =>
              /\ LoggerLevel' = LoggerLevel
              /\ levelsByImportance' = levelsByImportance

\* C11: addLoggerLevel throws when a level whose name differs from the
\* identifier at most in the case of its letters is registered, and when a
\* registered level has the same importance; a call that throws leaves
\* LoggerLevel and levelsByImportance as they were.
C11_RegistrationFails == [][C11_Step]_vars

\* after a level was registered, "warn" is refused because WARN exists
C11_CaseCollision ==
    /\ op.name = "addLoggerLevel" /\ op.identifier = JsString("warn")
    /\ op.data.importance = JsNumber(5)
    /\ ret = "Error: exists"
    /\ "TRACE" \in DOMAIN LoggerLevel
    /\ "warn" \notin DOMAIN LoggerLevel

\* C12: a log call at a level name that is no key of the registry throws to
\* its caller and writes nothing.
C12_UnknownLevel ==
    (op.name = "log" /\ op.level \notin DOMAIN LoggerLevel) =>
        /\ ret = "TypeError"
        /\ \A n \in 1..Len(out) : out[n].k # "write"

\* a logger constructed with streams: [] returns from a log call at a level
\* name that is not registered
C12_NoTargetNoError ==
    /\ op.name = "log" /\ op.lg = "A" /\ op.level = "trace"
    /\ "trace" \notin DOMAIN LoggerLevel
    /\ streams["A"] = <<>>
    /\ ret = "void"

\* C13: when the write of a destination fails during a log call, the call
\* throws the failure to its caller, for a plain destination and for a
\* terminal whose pinned lines are redrawn alike.
C13_WriteFailureRaised ==
    op.name = "log" =>
        \A n \in 1..Len(out) :
            out[n].k = "write" /\ WriteThrows(out[n].dst) => ret = "Error"

\* a log call returns normally although the write to the terminal failed
\* inside the redraw of the pinned lines, and the next target is written
C13_FailureSwallowed ==
    /\ op.name = "log" /\ op.lg = "A" /\ ret = "void"
    /\ \E n \in 1..Len(out) :
          /\ out[n].k = "write" /\ out[n].dst = "ttyX"
          /\ \E m \in (n + 1)..Len(out) : out[m].k = "unhandledRejection"
    /\ WritesTo("dA") # <<>>

\* C16: stripANSIFormatting is idempotent: stripping the string it returned
\* returns that string unchanged.
C16_StripIdempotent ==
    op.name = "stripANSIFormatting" =>
        stripANSIFormatting(out[1].s) = out[1].s

\* the string ESC ESC m m is stripped to ESC m, which a second strip empties
C16_SecondStripRemoves ==
    /\ op.name = "stripANSIFormatting"
    /\ op.string = <<ESC, ESC, "m", "m">>
    /\ out[1].s = <<ESC, "m">>
    /\ stripANSIFormatting(out[1].s) = <<>>

\* A's only target is the file, given with default options
DefaultFileTarget ==
    options["A"] = <<Opt("a1", "file", LvUndefined, U, U, U, U)>>

\* C14: a logger whose only target is an fs.WriteStream given with default
\* options writes exactly "test\n" to it when "test" is logged at INFO.
C14_DefaultFileWrite ==
    /\ DefaultFileTarget
    /\ op.name = "log" /\ op.lg = "A" /\ op.level = "INFO" /\ op.data = <<Test>>
    => WritesTo("file") = <<Test \o <<NL>>>>

\* the file receives the stripped default prefix before "test\n"
C14_PrefixWritten ==
    /\ DefaultFileTarget
    /\ op.name = "log" /\ op.lg = "A" /\ op.level = "INFO" /\ op.data = <<Test>>
    /\ ret = "void"
    /\ WritesTo("file") =
           << <<"[", "0", "5", ":", "0", "9", ":", "0", "2", "]", " ",
                "[", "I", "N", "F", "O", "]", " ", " ">> \o Test \o <<NL>> >>

\* the regular expression of stripANSIFormatting matches somewhere in s
HasAnsi(s) == \E j \in 1..Len(s) : MatchAnsi(s, j) # 0

\* C15: every string written to an fs.WriteStream holds no ANSI escape
\* sequence, and logging a coloured "Hello" followed by " World!" with no
\* prefix writes "Hello World!\n".
C15_FileFreeOfAnsi ==
    op.name = "log" =>
        /\ \A n \in 1..Len(out) :
              out[n].k = "write" /\ IsFsWriteStream(out[n].dst) => ~HasAnsi(out[n].s)
        /\ (/\ op.data = <<HelloWorld>>
            /\ Len(streams[op.lg]) = 1
            /\ streams[op.lg][1].prefix = "empty"
            /\ WritesTo("file") # <<>>)
           => WritesTo("file") =
                  << <<"H", "e", "l", "l", "o", " ", "W", "o", "r", "l", "d", "!", NL>> >>

\* the file is written ESC m and a line terminator: a sequence is left in it
C15_SequenceWritten ==
    /\ op.name = "log" /\ op.lg = "A" /\ ret = "void"
    /\ op.data = << <<ESC, ESC, "m", "m">> >>
    /\ WritesTo("file") = << <<ESC, "m", NL>> >>

\* the colour codes the five built-in levels are registered with
BuiltinColor == [DEBUG |-> 34, INFO |-> 32, WARN |-> 33, ERROR |-> 31, FATAL |-> 31]
\* positions k and k + 1 of s are the two decimal digits of v
TwoDigits(s, k, v) == s[k] = Digit(v \div 10) /\ s[k + 1] = Digit(v % 10)

\* C17: coloredLog returns the dim colour code, [HH:MM:SS] with two-digit
\* zero-padded fields, a reset, a space, the colour code of the level (that of
\* the table for a built-in level, the registered one otherwise), the
\* bracketed level name padded with spaces to width 7, a reset and one space;
\* the tag of a built-in level is 7 characters wide.
C17_PrefixGrammar ==
    op.name = "coloredLog" /\ ret = "string" =>
        LET s == out[1].s
            name == NameChars(op.levelName)
            width == IF Len(name) + 2 < 7 THEN 7 ELSE Len(name) + 2
            color == IF op.levelName \in DOMAIN BuiltinColor
                     THEN BuiltinColor[op.levelName]
                     ELSE LoggerLevel[op.levelName].ansiColor
        IN /\ Len(s) = 32 + width
           /\ SubSeq(s, 1, 6) = <<ESC, "[", "9", "0", "m", "[">>
           /\ TwoDigits(s, 7, op.date[1]) /\ s[9] = ":"
           /\ TwoDigits(s, 10, op.date[2]) /\ s[12] = ":"
           /\ TwoDigits(s, 13, op.date[3])
           /\ SubSeq(s, 15, 23) = <<"]", ESC, "[", "3", "9", "m", " ", ESC, "[">>
           /\ TwoDigits(s, 24, color) /\ s[26] = "m"
           /\ SubSeq(s, 27, 28 + Len(name)) = <<"[">> \o name \o <<"]">>
           /\ \A j \in (29 + Len(name))..(26 + width) : s[j] = " "
           /\ SubSeq(s, 27 + width, 32 + width) = <<ESC, "[", "3", "9", "m", " ">>
           /\ op.levelName \in BuiltinLevelSet => width = 7

\* coloredLog has returned the prefix of INFO, whose tag takes one space of
\* padding, at a time whose fields take a leading zero
C17_InfoPadded ==
    /\ op.name = "coloredLog" /\ ret = "string"
    /\ op.levelName = "INFO" /\ op.date = <<5, 9, 2>>
    /\ SubSeq(out[1].s, 27, 33) = <<"[", "I", "N", "F", "O", "]", " ">>

\* C18: in every state of the registry, whatever levels have been registered,
\* the importances of the built-in levels are ordered
\* DEBUG < INFO < WARN < ERROR < FATAL < NONE.
C18_BuiltinOrder ==
    /\ BuiltinLevelSet \cup {"NONE"} \subseteq DOMAIN LoggerLevel
    /\ Importance("DEBUG") < Importance("INFO")
    /\ Importance("INFO") < Importance("WARN")
    /\ Importance("WARN") < Importance("ERROR")
    /\ Importance("ERROR") < Importance("FATAL")
    /\ Importance("FATAL") < Importance("NONE")

\* with TRACE registered, a registration of "warn" at importance 5 (above
\* ERROR and FATAL) has been refused
C18_WarnReregistered ==
    /\ op.name = "addLoggerLevel"
    /\ op.identifier = JsString("warn")
    /\ op.data.importance = JsNumber(5)
    /\ ret = "Error: exists"
    /\ "TRACE" \in DOMAIN LoggerLevel

\* C19: getLoggerLevelName returns the name L when called with the value of
\* the built-in level L.
C19_RoundTrip ==
    op.name = "getLoggerLevelName" =>
        \A L \in BuiltinLevelSet : op.level = LoggerLevelEnum[L] => ret = L

\* getLoggerLevelName has been called with the value of WARN
C19_WarnNamed ==
    /\ op.name = "getLoggerLevelName"
    /\ op.level = LoggerLevelEnum["WARN"]
    /\ ret = "WARN"

\* stream i of logger lg redrew its pinned lines once in the last call
RedrawnOnce(lg, i) ==
    /\ i \in 1..Len(streams[lg])
    /\ Len(StepsOf(out, "moveCursor", lg, i)) = 1

\* C20: after a redraw of a terminal, the previous-line count recorded for it
\* is the number of pinned-line rows the redraw wrote (a line the level
\* predicate skips or the string interceptor suppresses is not counted).
C20_PreviousLineCount ==
    \A lg \in Loggers : \A i \in 1..MaxStreams :
        RedrawnOnce(lg, i) =>
            GetOrZero(previousLineSize[lg], streams[lg][i].stream)
                = Len(RowsDrawn(out, lg, i))

\* a terminal that admits WARN and above has redrawn one pinned INFO line:
\* no row was written and no exception thrown, and the count recorded is 1
C20_SkippedLineCounted ==
    /\ op.name = "updatePinnedLines" /\ op.lg = "A" /\ ret = "void"
    /\ RedrawnOnce("A", 1)
    /\ \A n \in 1..Len(out) : out[n].k # "unhandledRejection"
    /\ Len(pinnedLines["A"]) = 1
    /\ lines[pinnedLines["A"][1]].level = "INFO"
    /\ RowsDrawn(out, "A", 1) = <<>>
    /\ previousLineSize["A"]["tty"] = 1

\* the kinds of step that invoke a hook of a target, format for it or write it
TargetSteps == {"interceptData", "interceptString", "prefix", "write"}

\* C21: a target whose level predicate rejects the level of a log call is
\* skipped by that call: neither interceptor nor the prefix function is
\* invoked for it and nothing is written to it.
C21_RejectedSkipped ==
    op.name = "log" /\ op.level \in DOMAIN LoggerLevel =>
        \A i \in 1..Len(streams[op.lg]) :
            CallLevel(streams[op.lg][i].level, Importance(op.level)) = "false" =>
                \A n \in 1..Len(out) :
                    out[n].lg = op.lg /\ out[n].i = i => out[n].k \notin TargetSteps

\* B's second target admits INFO and above; a DEBUG call on B invoked its
\* string interceptor and its prefix function and wrote it
C21_RejectedFormatted ==
    /\ op.name = "log" /\ op.lg = "B" /\ op.level = "DEBUG" /\ ret = "void"
    /\ CallLevel(streams["B"][2].level, Importance("DEBUG")) = "false"
    /\ StepsOf(out, "interceptString", "B", 2) # <<>>
    /\ StepsOf(out, "prefix", "B", 2) # <<>>
    /\ StepsOf(out, "write", "B", 2) # <<>>
    /\ StepsOf(out, "interceptData", "B", 2) = <<>>

RECURSIVE Feeds(_, _, _)
\* logger h is logger l or forwards to it through at most fuel nested targets
Feeds(h, l, fuel) ==
    \/ h = l
    \/ /\ fuel > 0
       /\ \E k \in 1..Len(streams[h]) :
             /\ IsLogger(streams[h][k].stream)
             /\ Feeds(streams[h][k].stream, l, fuel - 1)

\* step n of out is made for target i of the called logger itself
OwnStep(n, i) == out[n].lg = op.lg /\ out[n].i = i /\ i >= 1

\* C22: a log call handles the targets of its logger in list order and
\* finishes what a target causes, the steps of the loggers nested under it
\* included, before the next target; when it returns, every admitted raw
\* target without interceptors has been written.
C22_ListOrder ==
    op.name = "log" =>
        /\ \A n \in 1..Len(out) : \A m \in (n + 1)..Len(out) :
              out[n].lg = op.lg /\ out[m].lg = op.lg /\ out[n].i >= 1 /\ out[m].i >= 1
              => out[n].i <= out[m].i
        /\ \A p \in 1..Len(out) :
              out[p].lg # op.lg =>
                  \E j \in 1..Len(streams[op.lg]) :
                      /\ IsLogger(streams[op.lg][j].stream)
                      /\ Feeds(streams[op.lg][j].stream, out[p].lg, MaxDepth)
                      /\ \A q \in 1..Len(out) :
                            /\ (\E i \in 1..(j - 1) : OwnStep(q, i)) => q < p
                            /\ (\E i \in (j + 1)..Len(streams[op.lg]) : OwnStep(q, i))
                               => p < q
        /\ ret = "void" =>
              \A i \in 1..Len(streams[op.lg]) :
                  /\ Unhooked(streams[op.lg][i])
                  /\ CallLevel(streams[op.lg][i].level, Importance(op.level)) = "true"
                  => StepsOf(out, "write", op.lg, i) # <<>>

\* a call on C has written dA (through B and A), then dB (through B), then
\* C's own second target dC
C22_DepthFirst ==
    /\ op.name = "log" /\ op.lg = "C" /\ ret = "void"
    /\ \E a \in 1..Len(out) : \E b \in (a + 1)..Len(out) : \E c \in (b + 1)..Len(out) :
          /\ out[a].k = "write" /\ out[a].dst = "dA" /\ out[a].lg = "A"
          /\ out[b].k = "write" /\ out[b].dst = "dB" /\ out[b].lg = "B"
          /\ out[c].k = "write" /\ out[c].dst = "dC" /\ out[c].lg = "C"

\* the part of s before its first line terminator
FirstLine(s) ==
    IF \A j \in 1..Len(s) : s[j] # NL THEN s
    ELSE LET e == CHOOSE e \in 1..Len(s) : s[e] = NL /\ \A j \in 1..(e - 1) : s[j] # NL
         IN [j \in 1..(e - 1) |-> s[j]]
\* the first n characters of s, all of s when it is shorter
Cut(s, n) == [j \in 1..(IF Len(s) < n THEN Len(s) ELSE n) |-> s[j]]

\* the row a terminal target shows for a pinned line: its prefix and the first
\* line of the content, cut to the width of the terminal
RowText(stream, line) ==
    LET content == IF lines[line].hasContent THEN lines[line].content ELSE <<>>
        date == CHOOSE date \in Dates : TRUE
    IN Cut(CallPrefix(stream.prefix, lines[line].level, date) \o FirstLine(content),
           TtyColumns)

\* C23: a redraw of a terminal target writes the content above the pinned
\* region when there is one (a log call or a release), then for every bound
\* line the target's level admits, in order of creation, the first line of its
\* formatted content cut to the columns of the terminal and one newline.
C23_RedrawRows ==
    \A lg \in Loggers : \A i \in 1..MaxStreams :
        RedrawnOnce(lg, i) =>
            LET W == StepsOf(out, "write", lg, i)
                D == RowsDue(streams[lg][i], pinnedLines[lg], lines)
                a == IF op.name \in {"log", "releasePinnedLine"} THEN 1 ELSE 0
            IN /\ Len(W) = a + 2 * Len(D)
               /\ a = 1 => W[1].n = 0 /\ W[1].s[Len(W[1].s)] = NL
               /\ \A k \in 1..Len(D) :
                     /\ W[a + 2 * k - 1].n = D[k]
                     /\ W[a + 2 * k - 1].s = RowText(streams[lg][i], D[k])
                     /\ W[a + 2 * k].n = D[k]
                     /\ W[a + 2 * k].s = <<NL>>

\* a log call has written "> foo" above two pinned lines, the first with
\* two-line content and the second wider than the terminal
C23_TwoRowsBelow ==
    /\ op.name = "log" /\ op.lg = "A" /\ op.data = <<Foo>>
    /\ pinnedLines["A"] = <<1, 2>>
    /\ lines[1].content = <<"a", NL, "b">>
    /\ lines[2].content = <<"l", "o", "n", "g", "e">>
    /\ WritesTo("tty") = << <<">", " ", "f", "o", "o", NL>>, <<">", " ", "a">>, <<NL>>,
                            <<">", " ", "l", "o">>, <<NL>> >>

\* the "log" step of the logger that made the nested call at step p of out:
\* the latest earlier "log" step of a logger with p's logger among its targets
SenderOf(p) ==
    LET Sends(q) ==
            /\ out[q].k = "log"
            /\ \E j \in 1..Len(streams[out[q].lg]) : streams[out[q].lg][j].stream = out[p].lg
    IN CHOOSE q \in 1..(p - 1) : Sends(q) /\ \A x \in (q + 1)..(p - 1) : ~Sends(x)

\* the text the sender of step p formatted: the string its interceptor
\* replaced it with, or the values (those its data interceptor replaced them
\* with) joined by spaces
SentText(p) ==
    LET q == SenderOf(p)
        Replaced(kind) ==
            \E n \in (q + 1)..(p - 1) :
                /\ out[n].k = kind /\ out[n].lg = out[q].lg
                /\ HookResult(streams[out[n].lg][out[n].i][kind], out[n].lvl) = "replace"
    IN IF Replaced("interceptString") THEN ReplacementString
       ELSE Join(IF Replaced("interceptData") THEN ReplacementData ELSE out[q].d, <<" ">>)

\* s with the identifier of logger l and a space before each of its lines
WithIdentifier(l, s) ==
    LET parts == Split(s, NL)
        id == CASE l = "B" -> <<"[", "B", "]", " ">>
                [] l = "C" -> <<"[", "C", "]", " ">>
                [] OTHER -> <<>>
    IN Join([k \in 1..Len(parts) |-> id \o parts[k]], <<NL>>)

\* C24: a logger forwards to a nested logger by one call of its log, at the
\* same level, with one value: the formatted message with the forwarding
\* logger's identifier and a space before every line (nothing when it has no
\* identifier), no prefix function called and no escape sequence removed.
C24_Forward ==
    op.name = "log" =>
        /\ \A p \in 2..Len(out) :
              out[p].k = "log" =>
                  /\ out[p].lvl = out[SenderOf(p)].lvl
                  /\ out[p].d = <<WithIdentifier(out[SenderOf(p)].lg, SentText(p))>>
        /\ \A n \in 1..Len(out) : out[n].k = "prefix" => ~IsLogger(out[n].dst)
        /\ \A l \in Loggers :
              LET Calls(e) == e.k = "log" /\ e.lg = l
              IN /\ Len(SelectSeq(out, Calls)) <= 1
                 /\ (/\ ret = "void"
                     /\ \E j \in 1..Len(streams[op.lg]) :
                           /\ streams[op.lg][j].stream = l
                           /\ streams[op.lg][j].interceptData = Undefined
                           /\ streams[op.lg][j].interceptString = Undefined)
                    => Len(SelectSeq(out, Calls)) = 1

\* B, whose forwarding target is given a prefix function, has forwarded a
\* two-line message to A with "[B] " before both lines
C24_BothLinesTagged ==
    /\ op.name = "log" /\ op.lg = "B" /\ ret = "void"
    /\ streams["B"][1].prefix = "tag"
    /\ op.data = << <<"a", NL, "b">>, <<"c">> >>
    /\ out[2] = Ev("log", "A", 0, "A", op.level,
                   << <<"[", "B", "]", " ", "a", NL,
                        "[", "B", "]", " ", "b", " ", "c">> >>, <<>>, 0)

\* the "log" step of the call in which logger out[n].lg made step n
CallOf(n) ==
    CHOOSE q \in 1..n :
        /\ out[q].k = "log" /\ out[q].lg = out[n].lg
        /\ \A x \in (q + 1)..n : ~(out[x].k = "log" /\ out[x].lg = out[n].lg)

\* the text logger out[n].lg formatted for the write at step n: the values it
\* was called with, or those a data interceptor of an earlier target of the
\* same call replaced them with, joined by spaces
WrittenText(n) ==
    LET q == CallOf(n)
        Replaced ==
            \E x \in (q + 1)..(n - 1) :
                /\ out[x].k = "interceptData" /\ out[x].lg = out[n].lg
                /\ HookResult(streams[out[x].lg][out[x].i].interceptData, out[x].lvl)
                     = "replace"
    IN Join(IF Replaced THEN ReplacementData ELSE out[q].d, <<" ">>)

\* s with p before each of its lines
WithPrefix(p, s) ==
    LET parts == Split(s, NL)
    IN Join([k \in 1..Len(parts) |-> p \o parts[k]], <<NL>>)

\* a raw destination that is not redrawn as a terminal with pinned lines
PlainTarget(stream) == ~IsLogger(stream.stream) /\ ~Eligible(stream)

\* C25: what a raw destination without pinned-line redraw receives from a
\* log call is one write: the message with the result of the prefix function
\* before every line (escape sequences removed for a file) and one line
\* terminator after it.
C25_PrefixEveryLine ==
    op.name = "log" =>
        /\ \A n \in 1..Len(out) :
              (/\ out[n].k = "write"
               /\ PlainTarget(streams[out[n].lg][out[n].i])
               /\ streams[out[n].lg][out[n].i].interceptString = Undefined)
              => LET stream == streams[out[n].lg][out[n].i]
                     date == CHOOSE date \in Dates : TRUE
                     prefix == IF stream.prefix = Undefined THEN <<>>
                               ELSE CallPrefix(stream.prefix, out[n].lvl, date)
                     message == WithPrefix(prefix, WrittenText(n))
                 IN out[n].s = (IF IsFsWriteStream(stream.stream)
                                THEN stripANSIFormatting(message)
                                ELSE message) \o <<NL>>
        /\ \A l \in Loggers : \A i \in 1..Len(streams[l]) :
              PlainTarget(streams[l][i]) =>
                  /\ Len(StepsOf(out, "write", l, i)) <= 1
                  /\ StepsOf(out, "moveCursor", l, i) = <<>>

\* B has written the two lines of a message to dB in one write, "> " before
\* each, after A has written the forwarded message to its file
C25_TwoLinesPrefixed ==
    /\ op.name = "log" /\ op.lg = "B" /\ ret = "void"
    /\ WritesTo("dB") = << <<">", " ", "a", NL, ">", " ", "b", " ", "c", NL>> >>
    /\ WritesTo("file") # <<>>

\* the kinds of step that move the cursor of a terminal or clear its line
CursorSteps == {"moveCursor", "cursorTo", "clearLine"}

\* C26: createPinnedLine, setContent and updatePinnedLines act only on the
\* targets of their logger that are terminals with allowPinnedLines true:
\* nothing is written to another destination or handed to a nested logger;
\* and a log call writes a terminal whose allowPinnedLines is false once,
\* without moving its cursor.
C26_OnlyEligibleTargets ==
    /\ op.name \in {"createPinnedLine", "setContent", "updatePinnedLines"} =>
          \A n \in 1..Len(out) :
              /\ out[n].lg = op.lg
              /\ out[n].i \in 1..Len(streams[op.lg])
              /\ Eligible(streams[op.lg][out[n].i])
    /\ op.name = "log" =>
          \A l \in Loggers : \A i \in 1..Len(streams[l]) :
              (IsTtyWriteStream(streams[l][i].stream) /\ ~Eligible(streams[l][i])) =>
                  /\ \A n \in 1..Len(out) :
                        out[n].lg = l /\ out[n].i = i => out[n].k \notin CursorSteps
                  /\ (l = op.lg /\ ret = "void") => Len(StepsOf(out, "write", l, i)) = 1

\* the content of a line of A is set: the terminal that allows pinned lines
\* is redrawn with it, the terminal that allows none and the plain
\* destination are not written
C26_OtherTargetsUntouched ==
    /\ op.name = "setContent" /\ op.lg = "A" /\ ret = "this"
    /\ Len(streams["A"]) = 3
    /\ RowsDrawn(out, "A", 3) # <<>>
    /\ WritesTo("tty") # <<>>
    /\ WritesTo("tty2") = <<>>
    /\ WritesTo("dA") = <<>>

\* the step is createPinnedLine, setContent or updatePinnedLines on logger lg
PinnedCallOn(lg) ==
    /\ op'.name \in {"createPinnedLine", "setContent", "updatePinnedLines"}
    /\ op'.lg = lg

C27_Step ==
    /\ \A n \in 1..Len(out') :
          (out'[n].k = "write" /\ out'[n].n # 0) =>
              /\ lines'[out'[n].n].parent = out'[n].lg
              /\ \E k \in 1..Len(pinnedLines'[out'[n].lg]) :
                    pinnedLines'[out'[n].lg][k] = out'[n].n
    /\ \A lg \in Loggers :
          PinnedCallOn(lg) =>
              /\ \A n \in 1..Len(out') : out'[n].lg = lg
              /\ \A l \in Loggers \ {lg} :
                    /\ previousLineSize'[l] = previousLineSize[l]
                    /\ pinnedLines'[l] = pinnedLines[l]

\* C27: the rows a terminal is redrawn with are pinned lines bound to the
\* logger that has the terminal among its targets; createPinnedLine,
\* setContent and updatePinnedLines on a logger draw nothing through another
\* logger and change no other logger's previous-line counts or pinned lines.
C27_OwnerDraws == [][C27_Step]_vars

\* B, which forwards to A, is given a pinned line with content while A has a
\* line drawn on its terminal: A's terminal is not written and A's count
\* stays 1; B's own terminal is redrawn with B's line only
C27_NestedNotRedrawn ==
    /\ op.name = "createPinnedLine" /\ op.lg = "B" /\ op.data # <<>>
    /\ IsLogger(streams["B"][1].stream)
    /\ Len(pinnedLines["A"]) = 1
    /\ previousLineSize["A"] = [tty |-> 1]
    /\ WritesTo("tty") = <<>>
    /\ RowsDrawn(out, "B", 2) = <<op.line>>

\* C28: createPinnedLine redraws every terminal target of its logger that
\* allows pinned lines exactly once, with or without initial content, and no
\* other target; the new line is bound when the redraw runs: the redraw
\* counts it, and draws it, with its initial content, when the target admits
\* its level.
C28_OneRedraw ==
    op.name = "createPinnedLine" =>
        /\ \E k \in 1..Len(pinnedLines[op.lg]) : pinnedLines[op.lg][k] = op.line
        /\ lines[op.line].hasContent = (op.data # <<>>)
        /\ \A i \in 1..Len(streams[op.lg]) :
              LET stream == streams[op.lg][i]
              IN IF Eligible(stream)
                 THEN /\ Len(StepsOf(out, "moveCursor", op.lg, i)) = 1
                      /\ previousLineSize[op.lg][stream.stream] = Len(pinnedLines[op.lg])
                      /\ CallLevel(stream.level, Importance(op.level)) = "true" =>
                            /\ Len(SelectSeq(RowsDrawn(out, op.lg, i),
                                             LAMBDA x : x = op.line)) = 1
                            /\ \E n \in 1..Len(out) :
                                  /\ out[n].k = "write" /\ out[n].n = op.line
                                  /\ out[n].i = i
                                  /\ out[n].s = RowText(stream, op.line)
                 ELSE StepsOf(out, "moveCursor", op.lg, i) = <<>>

\* a second line is created with initial content on a logger with two
\* terminals: each terminal is redrawn once and shows both lines
C28_CreatedWithContent ==
    /\ op.name = "createPinnedLine" /\ op.lg = "A" /\ op.line = 2
    /\ op.data = << <<"l", "o", "n", "g", "e">> >>
    /\ Len(streams["A"]) = 2
    /\ pinnedLines["A"] = <<1, 2>>
    /\ RowsDrawn(out, "A", 1) = <<1, 2>>
    /\ RowsDrawn(out, "A", 2) = <<1, 2>>
    /\ Len(StepsOf(out, "moveCursor", "A", 1)) = 1
    /\ Len(StepsOf(out, "moveCursor", "A", 2)) = 1

\* logger l is on a circle of nested targets
OnCycle(l) ==
    \E k \in 1..Len(streams[l]) :
        /\ IsLogger(streams[l][k].stream)
        /\ Feeds(streams[l][k].stream, l, Cardinality(Loggers))
\* a circle is reachable from logger h
ReachesCycle(h) == \E l \in Loggers : Feeds(h, l, Cardinality(Loggers)) /\ OnCycle(l)
\* the nested calls of log in the last call, the outermost included
LogCalls == SelectSeq(out, LAMBDA e : e.k = "log")

\* C29: a log call on a logger from which no circle of nested targets is
\* reachable ends without using up the stack.  Nothing detects a
\* circle: when one is reachable, the call returns only if an interceptor cut
\* the forwarding or an exception ended it, and a call that is forwarded
\* around the circle nests until the stack is used up, whatever its depth.
C29_Termination ==
    op.name = "log" =>
        /\ ~ReachesCycle(op.lg) => ret # "RangeError"
        /\ (ReachesCycle(op.lg) /\ ret = "void") =>
              \E n \in 1..Len(out) : SuppressAt(out[n]) /\ IsLogger(out[n].dst)
        /\ ret = "RangeError" =>
              /\ ReachesCycle(op.lg)
              /\ Len(LogCalls) >= MaxDepth

\* A was added B as a target while B forwards to A: a call on C went down to
\* A and around the circle until the stack was used up
C29_Overflow ==
    /\ op.name = "log" /\ op.lg = "C" /\ ret = "RangeError"
    /\ OnCycle("A") /\ OnCycle("B") /\ ~OnCycle("C")
    /\ Len(LogCalls) = MaxDepth
    /\ LogCalls[1].lg = "C" /\ LogCalls[2].lg = "B" /\ LogCalls[3].lg = "A"
    /\ LogCalls[4].lg = "B"

\* target i of logger lg was given to the constructor without a level
NoLevelGiven(lg, i) ==
    /\ i \in 1..Len(streams[lg])
    /\ streams[lg][i].determined
    /\ \E k \in 1..Len(options[lg]) :
          /\ options[lg][k].id = streams[lg][i].id
          /\ options[lg][k].level = LvUndefined

\* C30: a target configured without a level admits every level of the
\* registry, the levels registered later included: its level predicate holds
\* of each, and a log call at any registered level invokes its data
\* interceptor.
C30_DefaultAdmitsAll ==
    \A lg \in Loggers : \A i \in 1..Len(streams[lg]) :
        NoLevelGiven(lg, i) =>
            /\ \A name \in DOMAIN LoggerLevel :
                  CallLevel(streams[lg][i].level, Importance(name)) = "true"
            /\ (/\ op.name = "log" /\ op.lg = lg /\ op.level \in DOMAIN LoggerLevel
                /\ streams[lg][i].interceptData # Undefined)
               => StepsOf(out, "interceptData", lg, i) # <<>>

\* TRACE is registered with importance -1; a log call at TRACE on A, whose
\* target was given no level, returns without its data interceptor invoked
C30_TraceNotAdmitted ==
    /\ op.name = "log" /\ op.lg = "A" /\ op.level = "TRACE" /\ ret = "void"
    /\ "TRACE" \in DOMAIN LoggerLevel /\ Importance("TRACE") = 0 - 1
    /\ NoLevelGiven("A", 1)
    /\ streams["A"][1].interceptData = "replace"
    /\ CallLevel(streams["A"][1].level, Importance("TRACE")) = "false"
    /\ StepsOf(out, "interceptData", "A", 1) = <<>>
    /\ WritesTo("dA") = <<Foo \o <<NL>>>>

\* stream i of logger lg has the threshold NONE
NoneThreshold(lg, i) ==
    /\ i \in 1..Len(streams[lg])
    /\ streams[lg][i].level = LvAtLeast(MAX_VALUE)

\* C31: NONE has the greatest importance of the registry, and a target whose
\* threshold is NONE is not written by a log call at any registered level.
C31_NoneNeverWritten ==
    /\ \A n \in DOMAIN LoggerLevel : Importance(n) <= Importance("NONE")
    /\ op.name = "log" /\ op.level \in DOMAIN LoggerLevel /\ op.level # "NONE" =>
          \A n \in 1..Len(out) :
              ~(out[n].k = "write" /\ NoneThreshold(out[n].lg, out[n].i))

\* A's only target is dA with the threshold NONE; A.info(...) returned and
\* dA was written, although the predicate of the target rejects INFO
C31_NoneTargetWritten ==
    /\ op.name = "log" /\ op.lg = "A" /\ op.level = "INFO" /\ ret = "void"
    /\ Len(streams["A"]) = 1 /\ NoneThreshold("A", 1)
    /\ CallLevel(streams["A"][1].level, Importance("INFO")) = "false"
    /\ WritesTo("dA") # <<>>

\* the rows the first redraw of stream i of logger lg in ev moved the cursor up
RowsMovedUp(ev, lg, i) == 0 - StepsOf(ev, "moveCursor", lg, i)[1].n

C32_Step ==
    \A lg \in Loggers : \A i \in 1..MaxStreams :
        (/\ RedrawnOnce(lg, i)
         /\ Eligible(streams[lg][i])
         /\ StepsOf(out', "moveCursor", lg, i) # <<>>)
        => RowsMovedUp(out', lg, i) <= Len(RowsDrawn(out, lg, i))

\* C32: on a terminal, a redraw that follows a redraw moves the cursor up by
\* no more rows than the earlier redraw wrote as pinned-line rows, so that
\* the rows it clears and overwrites are pinned-line rows and never a row of
\* regular output.
C32_RedrawWithinPinnedRows == [][C32_Step]_vars

\* the only pinned line ever created is an INFO line on a terminal that
\* admits WARN and above, so no pinned-line row was ever written; a log call
\* on the logger moved the cursor up one row before clearing and writing
C32_RegularRowOverwritten ==
    /\ op.name = "log" /\ op.lg = "A" /\ ret = "void"
    /\ Len(lines) = 1 /\ lines[1].level = "INFO" /\ pinnedLines["A"] = <<1>>
    /\ Eligible(streams["A"][1])
    /\ CallLevel(streams["A"][1].level, Importance("INFO")) = "false"
    /\ RedrawnOnce("A", 1)
    /\ RowsMovedUp(out, "A", 1) = 1
    /\ RowsDrawn(out, "A", 1) = <<>>

\* line (of the lines all) is in the pinned set of the logger that created it
BoundIn(pinned, all, line) ==
    \E k \in 1..Len(pinned[all[line].parent]) : pinned[all[line].parent][k] = line

\* the call of the step is a release of line (logger.releasePinnedLine(line)
\* or line.release())
ReleaseOf(line) == op'.name = "releasePinnedLine" /\ op'.line = line

C33_Step ==
    /\ \A line \in 1..Len(lines) :
          \* a line that is not bound is never bound again
          /\ ~BoundIn(pinnedLines, lines, line) => ~BoundIn(pinnedLines', lines', line)
          \* a bound line stays bound until a release of it returns true
          /\ (BoundIn(pinnedLines, lines, line) /\ ~BoundIn(pinnedLines', lines', line))
             => (ReleaseOf(line) /\ ret' = "true")
          \* release returns true, and logs the content, for a bound line only,
          \* which it unbinds: at most once per line
          /\ (ReleaseOf(line) /\ (ret' = "true" \/ out' # <<>>))
             => /\ BoundIn(pinnedLines, lines, line) /\ ~BoundIn(pinnedLines', lines', line)
                /\ Len(SelectSeq(out', LAMBDA e : e.k = "log" /\ e.lg = op'.lg)) = 1
    \* a line is bound when createPinnedLine returns it
    /\ \A line \in (Len(lines) + 1)..Len(lines') : BoundIn(pinnedLines', lines', line)

\* C33: a pinned line is bound from its creation until the first release of
\* it that returns true and is never bound again; release returns true, and
\* emits the line's content as a regular log line, only for a bound line,
\* which it unbinds.
C33_OneWayLifecycle == [][C33_Step]_vars

\* a release of a bound line threw: the line is not bound any more, and no
\* release of it has returned true
C33_UnboundWithoutRelease ==
    /\ op.name = "releasePinnedLine" /\ ret = "TypeError"
    /\ lines[op.line].parent = op.lg
    /\ ~BoundIn(pinnedLines, lines, op.line)
    /\ HasInvalid(out)

\* the name table and the importance index are inverse to each other
OneToOne ==
    /\ \A n \in DOMAIN LoggerLevel :
          /\ MapHas(levelsByImportance, LoggerLevel[n].importance)
          /\ levelsByImportance[LoggerLevel[n].importance] = n
    /\ \A k \in DOMAIN levelsByImportance :
          /\ levelsByImportance[k] \in DOMAIN LoggerLevel
          /\ LoggerLevel[levelsByImportance[k]].importance = k
    /\ \A n, m \in DOMAIN LoggerLevel :
          LoggerLevel[n].importance = LoggerLevel[m].importance => n = m

\* a registered level stays registered with the importance it has
C34_Step ==
    \A n \in DOMAIN LoggerLevel :
        /\ n \in DOMAIN LoggerLevel'
        /\ LoggerLevel'[n].importance = LoggerLevel[n].importance

\* C34: after any sequence of registrations that returned or threw, every
\* name of LoggerLevel has an importance that levelsByImportance maps back
\* to it and every key of levelsByImportance is the importance of the name
\* it maps to, no two names share an importance, and no call changes the
\* importance of a registered name.
C34_OneToOne == []OneToOne /\ [][C34_Step]_vars

\* with TRACE registered, the registration of "notice" at the importance of
\* WARN has been refused and NOTICE is not in the registry
C34_DuplicateImportanceRefused ==
    /\ op.name = "addLoggerLevel"
    /\ op.identifier = JsString("notice")
    /\ op.data.importance = JsNumber(2)
    /\ ret = "Error: importance"
    /\ "TRACE" \in DOMAIN LoggerLevel
    /\ "NOTICE" \notin DOMAIN LoggerLevel
    /\ levelsByImportance[2] = "WARN"

\* C35: every target of a logger, whether the constructor was given it or
\* addStream added it, is the object the constructor builds from its
\* LoggerStream (level predicate, default prefix, pinned-line flag), and a
\* log call at a registered level in which no interceptor returns an invalid
\* value returns normally.
C35_AddedAsConstructed ==
    /\ \A lg \in Loggers : \A i \in 1..Len(streams[lg]) :
          streams[lg][i] = Determine(streams[lg][i])
    /\ (op.name = "log" /\ op.level \in DOMAIN LoggerLevel /\ ~HasInvalid(out))
       => ret = "void"

\* a target given without a level was added to A with addStream and is held
\* as it was given; a later A.log(...) at a registered level threw a
\* TypeError with no interceptor involved
C35_AddedTargetThrows ==
    /\ op.name = "log" /\ op.lg = "A" /\ op.level \in DOMAIN LoggerLevel
    /\ ret = "TypeError" /\ ~HasInvalid(out)
    /\ \E i \in 1..Len(streams["A"]) :
          /\ ~streams["A"][i].determined
          /\ streams["A"][i].level = LvUndefined
          /\ \A j \in 1..(i - 1) : streams["A"][j].determined
=============================================================================
